---- MODULE Spec2Model ----
(***************************************************************************)
(* Request understanding and streaming orchestration of the travel         *)
(* planner: IntentDetectionService.detect_intent, the generator            *)
(* SmartStreamingService.stream_travel_plan with its component searchers,  *)
(* and the SSE wrapper event_stream that delivers its events.              *)
(*                                                                         *)
(* Text is a sequence of one-character strings, so that Python's           *)
(* `keyword in text` and re.search are computed on characters.             *)
(***************************************************************************)
EXTENDS Integers, Sequences, FiniteSets, TLC

\* ------------------------------------------------------------------ bounds
\* longest query, in words, that the classifier specification enumerates
MaxWords == 2

\* ------------------------------------------------------------------ text
UpperCase == <<"A","B","C","D","E","F","G","H","I","J","K","L","M",
               "N","O","P","Q","R","S","T","U","V","W","X","Y","Z">>
LowerCase == <<"a","b","c","d","e","f","g","h","i","j","k","l","m",
               "n","o","p","q","r","s","t","u","v","w","x","y","z">>

\* str.lower() on one character
LowerChar(c) ==
    IF \E i \in 1..26 : UpperCase[i] = c
    THEN LowerCase[CHOOSE i \in 1..26 : UpperCase[i] = c]
    ELSE c

\* str.lower()
Lower(text) == [i \in 1..Len(text) |-> LowerChar(text[i])]

\* regex \w on the characters that occur in queries (letters; no digits or _)
IsWordChar(c) == \E i \in 1..26 : LowerCase[i] = c \/ UpperCase[i] = c

\* the pattern `kw` occurs in `text` starting at index i
OccursAt(kw, text, i) ==
    /\ i >= 1
    /\ i + Len(kw) - 1 <= Len(text)
    /\ SubSeq(text, i, i + Len(kw) - 1) = kw

\* Python's `kw in text`
Contains(text, kw) == \E i \in 1..(Len(text) + 1) : OccursAt(kw, text, i)

\* regex \b at the position just before index i (i = Len+1 is the end)
WordBoundary(text, i) ==
    LET before == i >= 2 /\ i - 1 <= Len(text) /\ IsWordChar(text[i - 1])
        after  == i >= 1 /\ i <= Len(text) /\ IsWordChar(text[i])
    IN  before # after

\* IntentDetectionService.__init__: self.flight_keywords
flight_keywords ==
    { <<"f","l","i","g","h","t">>,
      <<"f","l","i","g","h","t","s">>,
      <<"f","l","y">>,
      <<"f","l","y","i","n","g">>,
      <<"a","i","r","l","i","n","e">>,
      <<"a","i","r","l","i","n","e","s">>,
      <<"a","i","r","f","a","r","e">>,
      <<"p","l","a","n","e">>,
      <<"t","i","c","k","e","t">>,
      <<"t","i","c","k","e","t","s">>,
      <<"b","o","o","k"," ","f","l","i","g","h","t">>,
      <<"f","l","i","g","h","t"," ","b","o","o","k","i","n","g">>,
      <<"f","l","i","g","h","t"," ","p","r","i","c","e">>,
      <<"f","l","i","g","h","t"," ","c","o","s","t">>,
      <<"c","h","e","a","p","e","s","t"," ","f","l","i","g","h","t">> }

\* IntentDetectionService.__init__: self.hotel_keywords
hotel_keywords ==
    { <<"h","o","t","e","l">>,
      <<"h","o","t","e","l","s">>,
      <<"a","c","c","o","m","m","o","d","a","t","i","o","n">>,
      <<"s","t","a","y">>,
      <<"l","o","d","g","i","n","g">>,
      <<"r","e","s","o","r","t">>,
      <<"r","e","s","o","r","t","s">>,
      <<"m","o","t","e","l">>,
      <<"h","o","s","t","e","l">>,
      <<"g","u","e","s","t","h","o","u","s","e">>,
      <<"w","h","e","r","e"," ","t","o"," ","s","t","a","y">>,
      <<"b","o","o","k"," ","h","o","t","e","l">>,
      <<"h","o","t","e","l"," ","b","o","o","k","i","n","g">>,
      <<"r","o","o","m">>,
      <<"r","o","o","m","s">>,
      <<"h","o","t","e","l"," ","p","r","i","c","e">>,
      <<"h","o","t","e","l"," ","c","o","s","t">>,
      <<"c","h","e","a","p","e","s","t"," ","h","o","t","e","l">> }

\* IntentDetectionService.__init__: self.attraction_keywords
attraction_keywords ==
    { <<"a","t","t","r","a","c","t","i","o","n">>,
      <<"a","t","t","r","a","c","t","i","o","n","s">>,
      <<"t","h","i","n","g","s"," ","t","o"," ","d","o">>,
      <<"p","l","a","c","e","s"," ","t","o"," ","v","i","s","i","t">>,
      <<"t","o","u","r","i","s","t">>,
      <<"s","i","g","h","t","s","e","e","i","n","g">>,
      <<"a","c","t","i","v","i","t","i","e","s">>,
      <<"w","h","a","t"," ","t","o"," ","d","o">>,
      <<"m","u","s","t"," ","s","e","e">>,
      <<"m","u","s","t"," ","v","i","s","i","t">>,
      <<"l","a","n","d","m","a","r","k","s">>,
      <<"m","o","n","u","m","e","n","t","s">>,
      <<"r","e","s","t","a","u","r","a","n","t","s">>,
      <<"d","i","n","i","n","g">>,
      <<"f","o","o","d">>,
      <<"e","a","t">>,
      <<"c","u","i","s","i","n","e">> }

\* IntentDetectionService.__init__: self.itinerary_keywords
itinerary_keywords ==
    { <<"i","t","i","n","e","r","a","r","y">>,
      <<"s","c","h","e","d","u","l","e">>,
      <<"p","l","a","n">>,
      <<"d","a","y"," ","b","y"," ","d","a","y">>,
      <<"t","i","m","e","l","i","n","e">>,
      <<"a","g","e","n","d","a">>,
      <<"p","r","o","g","r","a","m">>,
      <<"r","o","u","t","e">>,
      <<"j","o","u","r","n","e","y">> }

\* IntentDetectionService.__init__: self.budget_keywords
budget_keywords ==
    { <<"b","u","d","g","e","t">>,
      <<"c","o","s","t">>,
      <<"p","r","i","c","e">>,
      <<"e","x","p","e","n","s","e">>,
      <<"s","p","e","n","d">>,
      <<"m","o","n","e","y">>,
      <<"h","o","w"," ","m","u","c","h">>,
      <<"a","f","f","o","r","d","a","b","l","e">>,
      <<"c","h","e","a","p">>,
      <<"e","x","p","e","n","s","i","v","e">> }

\* IntentDetectionService.__init__: self.complete_trip_keywords
complete_trip_keywords ==
    { <<"t","r","i","p">>,
      <<"v","a","c","a","t","i","o","n">>,
      <<"h","o","l","i","d","a","y">>,
      <<"t","r","a","v","e","l">>,
      <<"t","o","u","r">>,
      <<"j","o","u","r","n","e","y">>,
      <<"g","e","t","a","w","a","y">>,
      <<"w","e","e","k","e","n","d">>,
      <<"p","a","c","k","a","g","e">>,
      <<"c","o","m","p","l","e","t","e">>,
      <<"f","u","l","l">>,
      <<"p","l","a","n"," ","m","y"," ","t","r","i","p">>,
      <<"t","r","a","v","e","l"," ","p","l","a","n","n","i","n","g">>,
      <<"h","e","l","p"," ","m","e"," ","p","l","a","n">> }

\* alternatives of multi_intent_patterns[0] after the 'and'
multi_pattern1_tail ==
    { <<"f","l","i","g","h","t">>,
      <<"h","o","t","e","l">>,
      <<"a","c","c","o","m","m","o","d","a","t","i","o","n">>,
      <<"t","h","i","n","g","s"," ","t","o"," ","d","o">> }

\* leading alternatives of multi_intent_patterns[1]
multi_pattern2_head ==
    { <<"f","l","i","g","h","t">>,
      <<"h","o","t","e","l">> }

\* word alternatives of multi_intent_patterns[1]
multi_pattern2_tail ==
    { <<"a","n","d">>,
      <<"w","i","t","h">>,
      <<"p","l","u","s">>,
      <<"i","n","c","l","u","d","i","n","g">> }

\* multi_intent_patterns[2]
multi_pattern3 ==
    { <<"c","o","m","p","l","e","t","e">>,
      <<"f","u","l","l">>,
      <<"e","n","t","i","r","e">>,
      <<"w","h","o","l","e">>,
      <<"a","l","l">> }

\* multi_intent_patterns[3]
multi_pattern4 ==
    { <<"e","v","e","r","y","t","h","i","n","g">>,
      <<"p","a","c","k","a","g","e">>,
      <<"c","o","m","p","r","e","h","e","n","s","i","v","e">> }

\* the list without 'entire'
totality_words_short ==
    { <<"c","o","m","p","l","e","t","e">>,
      <<"f","u","l","l">>,
      <<"p","a","c","k","a","g","e">> }

\* _calculate_confidence: the words that raise a complete-trip result to 0.95
totality_words ==
    { <<"c","o","m","p","l","e","t","e">>,
      <<"f","u","l","l">>,
      <<"e","n","t","i","r","e">>,
      <<"p","a","c","k","a","g","e">> }

\* ------------------------------------------------------ intent classifier
\* re.search(r'\band\b.*\b(flight|hotel|accommodation|things to do)', text)
MatchesPattern1(text) ==
    LET and_ == <<"a","n","d">> IN
    \E i \in 1..Len(text) :
        /\ OccursAt(and_, text, i)
        /\ WordBoundary(text, i)
        /\ WordBoundary(text, i + 3)
        /\ \E j \in (i + 3)..Len(text) :
              /\ WordBoundary(text, j)
              /\ \E alt \in multi_pattern1_tail : OccursAt(alt, text, j)

\* re.search(r'(flight|hotel).*\b(and|with|plus|including)\b', text)
MatchesPattern2(text) ==
    \E i \in 1..Len(text) : \E head \in multi_pattern2_head :
        /\ OccursAt(head, text, i)
        /\ \E j \in (i + Len(head))..Len(text) : \E alt \in multi_pattern2_tail :
              /\ OccursAt(alt, text, j)
              /\ WordBoundary(text, j)
              /\ WordBoundary(text, j + Len(alt))

\* re.search(r'complete|full|entire|whole|all', text)
MatchesPattern3(text) == \E alt \in multi_pattern3 : Contains(text, alt)

\* re.search(r'everything|package|comprehensive', text)
MatchesPattern4(text) == \E alt \in multi_pattern4 : Contains(text, alt)

\* any(re.search(pattern, query_lower) for pattern in multi_intent_patterns)
is_multi_intent(text) ==
    \/ MatchesPattern1(text)
    \/ MatchesPattern2(text)
    \/ MatchesPattern3(text)
    \/ MatchesPattern4(text)

\* IntentDetectionService._count_keyword_matches
_count_keyword_matches(text, keywords) ==
    Cardinality({kw \in keywords : Contains(text, kw)})

\* the hotels block placed before the flights block
Stages_hotels_first == <<"hotels", "flights", "attractions", "itinerary", "budget", "tips">>

\* the stage blocks of stream_travel_plan, in the order of the code
Stages == <<"flights", "hotels", "attractions", "itinerary", "budget", "tips">>
ComponentNames == {"flights", "hotels", "attractions", "itinerary", "budget", "tips", "summary"}

\* the `components` dict as first built: only the summary is on
SummaryOnly == [c \in ComponentNames |-> c = "summary"]
\* the `components` dict of a complete trip
AllComponents == [c \in ComponentNames |-> TRUE]

\* the keyword counts detect_intent takes of the lower-cased query
KeywordCounts(text) ==
    [flights     |-> _count_keyword_matches(text, flight_keywords),
     hotels      |-> _count_keyword_matches(text, hotel_keywords),
     attractions |-> _count_keyword_matches(text, attraction_keywords),
     itinerary   |-> _count_keyword_matches(text, itinerary_keywords),
     budget      |-> _count_keyword_matches(text, budget_keywords),
     complete    |-> _count_keyword_matches(text, complete_trip_keywords)]

\* the intent label chosen by the if/elif chain of detect_intent
IntentOf(multi, m) ==
    LET intent_count == Cardinality({c \in {"flights", "hotels", "attractions", "itinerary", "budget"} : m[c] > 0})
    IN
    IF multi \/ m.complete > 0 THEN "complete_trip"
    ELSE IF m.flights > 0 /\ m.hotels = 0 /\ m.attractions = 0 THEN "flight_only"
    ELSE IF m.hotels > 0 /\ m.flights = 0 /\ m.attractions = 0 THEN "hotel_only"
    ELSE IF m.attractions > 0 /\ m.flights = 0 /\ m.hotels = 0 THEN "attractions_only"
    ELSE IF m.itinerary > 1 /\ m.flights = 0 /\ m.hotels = 0 THEN "itinerary_only"
    ELSE IF m.budget > 1 /\ m.flights = 0 /\ m.hotels = 0 THEN "budget_only"
    ELSE IF intent_count >= 2 THEN "complete_trip"
    ELSE IF intent_count = 1 THEN
             IF m.flights > 0 THEN "flight_only"
        ELSE IF m.hotels > 0 THEN "hotel_only"
        ELSE IF m.attractions > 0 THEN "attractions_only"
        ELSE IF m.itinerary > 0 THEN "itinerary_only"
        ELSE "budget_only"
    ELSE "complete_trip"

\* the `elif intent_count == 1` block left out: one category falls through
\* to the complete trip
ComponentsOf_single_falls_through(multi, m) ==
    LET intent_count == Cardinality({c \in {"flights", "hotels", "attractions", "itinerary", "budget"} : m[c] > 0})
    IN
    IF multi \/ m.complete > 0 THEN AllComponents
    ELSE IF m.flights > 0 /\ m.hotels = 0 /\ m.attractions = 0
         THEN [SummaryOnly EXCEPT !.flights = TRUE]
    ELSE IF m.hotels > 0 /\ m.flights = 0 /\ m.attractions = 0
         THEN [SummaryOnly EXCEPT !.hotels = TRUE]
    ELSE IF m.attractions > 0 /\ m.flights = 0 /\ m.hotels = 0
         THEN [SummaryOnly EXCEPT !.attractions = TRUE]
    ELSE IF m.itinerary > 1 /\ m.flights = 0 /\ m.hotels = 0
         THEN [SummaryOnly EXCEPT !.itinerary = TRUE, !.attractions = TRUE]
    ELSE IF m.budget > 1 /\ m.flights = 0 /\ m.hotels = 0
         THEN [SummaryOnly EXCEPT !.budget = TRUE]
    ELSE AllComponents

\* the flights test without `hotel_matches == 0`
ComponentsOf_flights_ignore_hotels(multi, m) ==
    LET intent_count == Cardinality({c \in {"flights", "hotels", "attractions", "itinerary", "budget"} : m[c] > 0})
    IN
    IF multi \/ m.complete > 0 THEN AllComponents
    ELSE IF m.flights > 0 /\ m.attractions = 0
         THEN [SummaryOnly EXCEPT !.flights = TRUE]
    ELSE IF m.hotels > 0 /\ m.flights = 0 /\ m.attractions = 0
         THEN [SummaryOnly EXCEPT !.hotels = TRUE]
    ELSE IF m.attractions > 0 /\ m.flights = 0 /\ m.hotels = 0
         THEN [SummaryOnly EXCEPT !.attractions = TRUE]
    ELSE IF m.itinerary > 1 /\ m.flights = 0 /\ m.hotels = 0
         THEN [SummaryOnly EXCEPT !.itinerary = TRUE, !.attractions = TRUE]
    ELSE IF m.budget > 1 /\ m.flights = 0 /\ m.hotels = 0
         THEN [SummaryOnly EXCEPT !.budget = TRUE]
    ELSE IF intent_count >= 2 THEN AllComponents
    ELSE IF intent_count = 1
         THEN [SummaryOnly EXCEPT !.flights = m.flights > 0,
                                  !.hotels = m.hotels > 0,
                                  !.attractions = m.attractions > 0,
                                  !.itinerary = m.itinerary > 0,
                                  !.budget = m.budget > 0]
    ELSE AllComponents

\* the last `else` left out: the dict stays as first built
ComponentsOf_no_default(multi, m) ==
    LET intent_count == Cardinality({c \in {"flights", "hotels", "attractions", "itinerary", "budget"} : m[c] > 0})
    IN
    IF multi \/ m.complete > 0 THEN AllComponents
    ELSE IF m.flights > 0 /\ m.hotels = 0 /\ m.attractions = 0
         THEN [SummaryOnly EXCEPT !.flights = TRUE]
    ELSE IF m.hotels > 0 /\ m.flights = 0 /\ m.attractions = 0
         THEN [SummaryOnly EXCEPT !.hotels = TRUE]
    ELSE IF m.attractions > 0 /\ m.flights = 0 /\ m.hotels = 0
         THEN [SummaryOnly EXCEPT !.attractions = TRUE]
    ELSE IF m.itinerary > 1 /\ m.flights = 0 /\ m.hotels = 0
         THEN [SummaryOnly EXCEPT !.itinerary = TRUE, !.attractions = TRUE]
    ELSE IF m.budget > 1 /\ m.flights = 0 /\ m.hotels = 0
         THEN [SummaryOnly EXCEPT !.budget = TRUE]
    ELSE IF intent_count >= 2 THEN AllComponents
    ELSE IF intent_count = 1
         THEN [SummaryOnly EXCEPT !.flights = m.flights > 0,
                                  !.hotels = m.hotels > 0,
                                  !.attractions = m.attractions > 0,
                                  !.itinerary = m.itinerary > 0,
                                  !.budget = m.budget > 0]
    ELSE SummaryOnly

\* the itinerary branch also setting components['tips']
ComponentsOf_itinerary_with_tips(multi, m) ==
    LET intent_count == Cardinality({c \in {"flights", "hotels", "attractions", "itinerary", "budget"} : m[c] > 0})
    IN
    IF multi \/ m.complete > 0 THEN AllComponents
    ELSE IF m.flights > 0 /\ m.hotels = 0 /\ m.attractions = 0
         THEN [SummaryOnly EXCEPT !.flights = TRUE]
    ELSE IF m.hotels > 0 /\ m.flights = 0 /\ m.attractions = 0
         THEN [SummaryOnly EXCEPT !.hotels = TRUE]
    ELSE IF m.attractions > 0 /\ m.flights = 0 /\ m.hotels = 0
         THEN [SummaryOnly EXCEPT !.attractions = TRUE]
    ELSE IF m.itinerary > 1 /\ m.flights = 0 /\ m.hotels = 0
         THEN [SummaryOnly EXCEPT !.itinerary = TRUE, !.attractions = TRUE, !.tips = TRUE]
    ELSE IF m.budget > 1 /\ m.flights = 0 /\ m.hotels = 0
         THEN [SummaryOnly EXCEPT !.budget = TRUE]
    ELSE IF intent_count >= 2 THEN AllComponents
    ELSE IF intent_count = 1
         THEN [SummaryOnly EXCEPT !.flights = m.flights > 0,
                                  !.hotels = m.hotels > 0,
                                  !.attractions = m.attractions > 0,
                                  !.itinerary = m.itinerary > 0,
                                  !.budget = m.budget > 0]
    ELSE AllComponents

\* the `components` dict set by the same chain
ComponentsOf(multi, m) ==
    LET intent_count == Cardinality({c \in {"flights", "hotels", "attractions", "itinerary", "budget"} : m[c] > 0})
    IN
    IF multi \/ m.complete > 0 THEN AllComponents
    ELSE IF m.flights > 0 /\ m.hotels = 0 /\ m.attractions = 0
         THEN [SummaryOnly EXCEPT !.flights = TRUE]
    ELSE IF m.hotels > 0 /\ m.flights = 0 /\ m.attractions = 0
         THEN [SummaryOnly EXCEPT !.hotels = TRUE]
    ELSE IF m.attractions > 0 /\ m.flights = 0 /\ m.hotels = 0
         THEN [SummaryOnly EXCEPT !.attractions = TRUE]
    ELSE IF m.itinerary > 1 /\ m.flights = 0 /\ m.hotels = 0
         THEN [SummaryOnly EXCEPT !.itinerary = TRUE, !.attractions = TRUE]
    ELSE IF m.budget > 1 /\ m.flights = 0 /\ m.hotels = 0
         THEN [SummaryOnly EXCEPT !.budget = TRUE]
    ELSE IF intent_count >= 2 THEN AllComponents
    ELSE IF intent_count = 1
         THEN [SummaryOnly EXCEPT !.flights = m.flights > 0,
                                  !.hotels = m.hotels > 0,
                                  !.attractions = m.attractions > 0,
                                  !.itinerary = m.itinerary > 0,
                                  !.budget = m.budget > 0]
    ELSE AllComponents

\* IntentDetectionService._calculate_confidence, in hundredths
_calculate_confidence(text, intent, m) ==
    IF intent = "complete_trip"
    THEN IF \E word \in totality_words : Contains(text, word) THEN 95 ELSE 85
    ELSE LET category == CASE intent = "flight_only" -> "flights"
                           [] intent = "hotel_only" -> "hotels"
                           [] intent = "attractions_only" -> "attractions"
                           [] intent = "itinerary_only" -> "itinerary"
                           [] intent = "budget_only" -> "budget"
             intent_count == m[category]
             other_counts == m.flights + m.hotels + m.attractions + m.itinerary + m.budget - m[category]
         IN  IF intent_count > 0 /\ other_counts = 0 THEN 95
             ELSE IF intent_count > other_counts THEN 85
             ELSE 70

\* IntentDetectionService.detect_intent
detect_intent(query) ==
    LET query_lower == Lower(query)
        multi       == is_multi_intent(query_lower)
        m           == KeywordCounts(query_lower)
        intent      == IntentOf(multi, m)
    IN  [intent            |-> intent,
         components        |-> ComponentsOf(multi, m),
         confidence        |-> _calculate_confidence(query_lower, intent, m),
         detected_keywords |-> m]

\* the value of a result not yet computed
NoIntent ==
    [intent            |-> "none",
     components        |-> [c \in ComponentNames |-> FALSE],
     confidence        |-> 0,
     detected_keywords |-> [flights |-> 0, hotels |-> 0, attractions |-> 0,
                            itinerary |-> 0, budget |-> 0, complete |-> 0]]

\* ----------------------------------------------------------- the queries
\* words joined by single blanks
RECURSIVE Join(_)
Join(words) ==
    IF Len(words) = 0 THEN <<>>
    ELSE IF Len(words) = 1 THEN words[1]
    ELSE words[1] \o <<" ">> \o Join(Tail(words))

\* the words of the queries given to the classifier
Vocabulary ==
    { <<"f","l","i","g","h","t","s">>,
      <<"h","o","t","e","l">>,
      <<"f","o","o","d">>,
      <<"i","t","i","n","e","r","a","r","y">>,
      <<"s","c","h","e","d","u","l","e">>,
      <<"b","u","d","g","e","t">>,
      <<"c","h","e","a","p">>,
      <<"p","l","a","n">>,
      <<"t","r","i","p">>,
      <<"a","n","d">>,
      <<"t","o">>,
      <<"C","o","m","p","l","e","t","e">>,
      <<"e","n","t","i","r","e">>,
      <<"p","a","c","k","a","g","e">>,
      <<"d","a","l","l","a","s">>,
      <<"g","o","a">> }

\* the queries given to the streaming runs: a complete trip, and one query
\* for each narrower set of components detect_intent can request
StreamQueries ==
    { <<"P","l","a","n"," ","a"," ","c","o","m","p","l","e","t","e"," ","t","r","i","p"," ","t","o"," ","G","o","a">>,
      <<"f","l","i","g","h","t","s"," ","t","o"," ","g","o","a">>,
      <<"h","o","t","e","l"," ","i","n"," ","g","o","a">>,
      <<"f","o","o","d"," ","i","n"," ","g","o","a">>,
      <<"s","c","h","e","d","u","l","e"," ","i","t","i","n","e","r","a","r","y"," ","g","o","a">>,
      <<"c","h","e","a","p"," ","b","u","d","g","e","t"," ","g","o","a">>,
      <<"a","g","e","n","d","a"," ","g","o","a">> }

\* ------------------------------------------------------------ date values
\* datetimes are counted in half days, so that datetime.now() can fall on
\* midnight or inside the day; a "%Y-%m-%d" string is a day number
TicksPerDay == 2
\* the day on which the runs take place
Today == 10

\* datetime.strptime(s, "%Y-%m-%d")
strptime(day) == day * TicksPerDay
\* datetime.strftime("%Y-%m-%d"): the time of day is dropped
strftime(dt) == dt \div TicksPerDay
\* timedelta(days=n)
timedelta(n) == n * TicksPerDay

\* a JSON field that is absent or null (dict.get returns None)
None == -1
\* a string field that is absent or null
Absent == "<absent>"
\* a date string that strptime rejects, a price that float() rejects
Malformed == -2

\* ------------------------------------------------- completion: the parser
\* what the completion call of _parse_travel_query_async can produce
ParseFailed(kind) ==
    [kind |-> kind, origin |-> "", departure_date |-> None, return_date |-> None,
     adults |-> None, budget_level |-> "standard"]
ParsedJson(origin, dep, ret, adults, level) ==
    [kind |-> "json", origin |-> origin, departure_date |-> dep, return_date |-> ret,
     adults |-> adults, budget_level |-> level]

\* the value None returned by the parser
NoParse == ParseFailed("none")

\* the `if dep_date < current_date` repair of lines 282-286 left out
_parse_travel_query_async_keeps_past(resp, current_date) ==
    IF resp.kind # "json" THEN NoParse
    ELSE
    LET tomorrow == current_date + timedelta(1)
        raw_dep  == resp.departure_date
        dep_ok   == raw_dep # None /\ raw_dep # Malformed
        dep_date == IF dep_ok THEN strptime(raw_dep) ELSE tomorrow
        dep_str  == IF dep_ok THEN raw_dep ELSE strftime(tomorrow)
        raw_ret  == resp.return_date
        ret_ok   == raw_ret # None /\ raw_ret # Malformed /\ ~(strptime(raw_ret) <= dep_date)
        ret_str  == IF ret_ok THEN raw_ret ELSE strftime(dep_date + timedelta(3))
    IN  [resp EXCEPT !.departure_date = dep_str, !.return_date = ret_str]

\* `if ret_date < dep_date` at line 301: a return on the departure day is kept
_parse_travel_query_async_same_day_return(resp, current_date) ==
    IF resp.kind # "json" THEN NoParse
    ELSE
    LET tomorrow == current_date + timedelta(1)
        raw_dep  == resp.departure_date
        dep_ok   == raw_dep # None /\ raw_dep # Malformed /\ ~(strptime(raw_dep) < current_date)
        dep_date == IF dep_ok THEN strptime(raw_dep) ELSE tomorrow
        dep_str  == IF dep_ok THEN raw_dep ELSE strftime(tomorrow)
        raw_ret  == resp.return_date
        ret_ok   == raw_ret # None /\ raw_ret # Malformed /\ ~(strptime(raw_ret) < dep_date)
        ret_str  == IF ret_ok THEN raw_ret ELSE strftime(dep_date + timedelta(3))
    IN  [resp EXCEPT !.departure_date = dep_str, !.return_date = ret_str]

\* the try block of _parse_travel_query_async, lines 274-306
_parse_travel_query_async(resp, current_date) ==
    IF resp.kind # "json" THEN NoParse
    ELSE
    LET tomorrow == current_date + timedelta(1)
        raw_dep  == resp.departure_date
        dep_ok   == raw_dep # None /\ raw_dep # Malformed /\ ~(strptime(raw_dep) < current_date)
        dep_date == IF dep_ok THEN strptime(raw_dep) ELSE tomorrow
        dep_str  == IF dep_ok THEN raw_dep ELSE strftime(tomorrow)
        raw_ret  == resp.return_date
        ret_ok   == raw_ret # None /\ raw_ret # Malformed /\ ~(strptime(raw_ret) <= dep_date)
        ret_str  == IF ret_ok THEN raw_ret ELSE strftime(dep_date + timedelta(3))
    IN  [resp EXCEPT !.departure_date = dep_str, !.return_date = ret_str]

\* SmartStreamingService._calculate_days
_calculate_days(departure_date, return_date) ==
    IF departure_date = None \/ return_date = None THEN 3
    ELSE IF departure_date = Malformed \/ return_date = Malformed THEN 3
    ELSE (return_date - departure_date) + 1

\* only `not parsed_travel.get("origin")`: the placeholder is not tested
OriginMissing_placeholder_forgotten(parsed_travel) ==
    parsed_travel.origin \in {Absent, ""}

\* line 77: the origin is absent, empty or the placeholder
OriginMissing(parsed_travel) ==
    parsed_travel.origin \in {Absent, "", "Not specified"}

\* the parse failure is not tested and the run goes on
AfterParse_ignores_failure(parsed_travel) ==
    IF parsed_travel.kind = "json" /\ OriginMissing(parsed_travel)
    THEN "needs_origin" ELSE "continue"

\* the origin test of lines 77-83 left out: a request without origin goes on
AfterParse_no_origin_test(parsed_travel) ==
    IF parsed_travel = NoParse THEN "error" ELSE "continue"

\* lines 72-83: what the run does with the parser's result
AfterParse(parsed_travel) ==
    IF parsed_travel = NoParse THEN "error"
    ELSE IF OriginMissing(parsed_travel) THEN "needs_origin"
    ELSE "continue"

\* ------------------------------------------------------------ searchers
\* what a call of a searcher gives its caller: a returned value, or an
\* exception that leaves the searcher
Returned(value) == [raised |-> FALSE, value |-> value]
Raised(value) == [raised |-> TRUE, value |-> value]

\* ---------------------------------------------------- inventory lookups
\* one row of the flight dataframe: Source column and 'Total Price'
Flight(source, price) == [Source |-> source, price |-> price]

\* outcomes of flight_service.process_flight_search
FlightRaise == [kind |-> "raise", rows |-> <<>>, origin |-> "none"]
FlightNone  == [kind |-> "none", rows |-> <<>>, origin |-> "none"]
FlightDf(rows, origin) == [kind |-> "df", rows |-> rows, origin |-> origin]

\* lines 335-339: the rows whose Source is (is not) the origin, in order
RECURSIVE SelectRows(_, _, _)
SelectRows(rows, origin, wantOutbound) ==
    IF rows = <<>> THEN <<>>
    ELSE LET rest == SelectRows(Tail(rows), origin, wantOutbound)
         IN  IF (Head(rows).Source = origin) = wantOutbound
             THEN <<Head(rows)>> \o rest ELSE rest

Take(s, n) == SubSeq(s, 1, IF Len(s) < n THEN Len(s) ELSE n)

\* SmartStreamingService._search_flights_async
_search_flights_async(resp) ==
    Returned(
    IF resp.kind = "raise" THEN [outbound |-> <<>>, return |-> <<>>]
    ELSE IF resp.kind = "none" \/ resp.rows = <<>> THEN [outbound |-> <<>>, return |-> <<>>]
    ELSE LET flights_list   == resp.rows
             outbound       == SelectRows(flights_list, resp.origin, TRUE)
             return_flights == SelectRows(flights_list, resp.origin, FALSE)
             mid            == Len(flights_list) \div 2
         IN  IF outbound = <<>> /\ return_flights = <<>>
             THEN [outbound |-> SubSeq(flights_list, 1, mid),
                   return   |-> SubSeq(flights_list, mid + 1, Len(flights_list))]
             ELSE [outbound |-> outbound, return |-> return_flights])

\* ResponseFormatter.format_flight_response raises: _get_flight_decision_helpers
\* calls float(flight_data.get('Total Price', 0))
FormatRaises(flight) == flight.price = Malformed

\* lines 123-127: formatting the first five flights of each direction raises
FlightFormattingRaises(flight_results) ==
    \/ \E i \in 1..Len(Take(flight_results.outbound, 5)) : FormatRaises(flight_results.outbound[i])
    \/ \E i \in 1..Len(Take(flight_results.return, 5)) : FormatRaises(flight_results.return[i])

\* outcomes of hotel_service.process_hotel_search; a row is its 'Total Price'
HotelRaise == [kind |-> "raise", rows |-> <<>>]
HotelNone  == [kind |-> "none", rows |-> <<>>]
HotelDf(rows) == [kind |-> "df", rows |-> rows]

\* the searcher without its try/except: the inventory's exception leaves it
_search_hotels_async_propagates(resp) ==
    IF resp.kind = "raise" THEN Raised(<<>>)
    ELSE IF resp.kind = "df" /\ resp.rows # <<>> THEN Returned(resp.rows)
    ELSE Returned(<<>>)

\* SmartStreamingService._search_hotels_async
_search_hotels_async(resp) ==
    IF resp.kind = "raise" THEN Returned(<<>>)
    ELSE IF resp.kind = "df" /\ resp.rows # <<>> THEN Returned(resp.rows)
    ELSE Returned(<<>>)

\* ---------------------------------------------- completion: the advisers
\* the completion call raises (or answers no JSON) or answers; the except
\* branch of each adviser returns its default payload
\* SmartStreamingService._get_attractions_async
_get_attractions_async(resp) ==
    IF resp = "raise" THEN Returned("default") ELSE Returned("answer")

\* SmartStreamingService._create_itinerary_async
_create_itinerary_async(resp) ==
    IF resp = "raise" THEN Returned("default") ELSE Returned("answer")

\* SmartStreamingService._get_travel_tips_async
_get_travel_tips_async(resp) ==
    IF resp = "raise" THEN Returned("default") ELSE Returned("answer")


\* ------------------------------------------------------- budget estimate
\* amounts and progress values are exact fractions n/d (the code uses
\* floats); a whole number is always written n/1
Frac(n, d) ==
    IF n % d = 0 THEN [n |-> n \div d, d |-> 1] ELSE [n |-> n, d |-> d]
Whole(n) == [n |-> n, d |-> 1]
FracAdd(a, b) == Frac(a.n * b.d + b.n * a.d, a.d * b.d)
FracMul(a, b) == Frac(a.n * b.n, a.d * b.d)
FracDiv(a, k) == Frac(a.n, a.d * k)
FracLeq(a, b) == a.n * b.d <= b.n * a.d

\* float(row.get('Total Price', default))
PriceOr(price, default) == IF price = None THEN default ELSE price

RECURSIVE SumPrices(_, _)
SumPrices(prices, default) ==
    IF prices = <<>> THEN 0
    ELSE PriceOr(Head(prices), default) + SumPrices(Tail(prices), default)

\* the dict returned by the except branch of _calculate_budget_async
FallbackBudget ==
    [flights |-> Whole(30000), accommodation |-> Whole(9000),
     activities_food |-> Whole(15000), local_transport |-> Whole(2000),
     total |-> Whole(56000), per_person |-> Whole(56000)]

\* the budget of a run that has not computed one
NoBudget ==
    [flights |-> Whole(0), accommodation |-> Whole(0), activities_food |-> Whole(0),
     local_transport |-> Whole(0), total |-> Whole(0), per_person |-> Whole(0)]

\* the argument passed for a stage that was not requested
NoFlights == [given |-> FALSE, outbound |-> <<>>, return |-> <<>>]
NoHotels  == [given |-> FALSE, rows |-> <<>>]

\* SmartStreamingService._calculate_budget_async
_calculate_budget_async(parsed_travel, flights, hotels) ==
    LET days      == _calculate_days(parsed_travel.departure_date, parsed_travel.return_date)
        travelers == IF parsed_travel.adults = None THEN 1 ELSE parsed_travel.adults
        \* `if flights:` is true of any dict that was passed, also of empty lists
        outbound  == flights.outbound
        inbound   == flights.return
        raisesF   == flights.given /\ ( \/ (outbound # <<>> /\ outbound[1].price = Malformed)
                                        \/ (inbound # <<>> /\ inbound[1].price = Malformed) )
        flight_cost ==
            IF flights.given
            THEN (IF outbound # <<>> THEN PriceOr(outbound[1].price, 15000) ELSE 0)
               + (IF inbound # <<>> THEN PriceOr(inbound[1].price, 15000) ELSE 0)
            ELSE 30000
        first3    == Take(hotels.rows, 3)
        raisesH   == hotels.given /\ \E i \in 1..Len(first3) : first3[i] = Malformed
        hotel_cost ==
            IF hotels.given /\ Len(hotels.rows) > 0
            THEN FracMul(Frac(SumPrices(first3, 3000), Len(first3)), Whole(days - 1))
            ELSE Whole(3000 * (days - 1))
        food_per_day       == IF parsed_travel.budget_level # "budget" THEN 1500 ELSE 800
        activities_per_day == IF parsed_travel.budget_level # "budget" THEN 2000 ELSE 1000
        local_transport    == 500 * days
        activities_food    == (food_per_day + activities_per_day) * days * travelers
        total == FracAdd(Whole(flight_cost * travelers + activities_food + local_transport),
                         hotel_cost)
    IN  IF raisesF \/ raisesH \/ travelers = 0 THEN Returned(FallbackBudget)
        ELSE Returned(
             [flights         |-> Whole(flight_cost * travelers),
              accommodation   |-> hotel_cost,
              activities_food |-> Whole(activities_food),
              local_transport |-> Whole(local_transport),
              total           |-> total,
              per_person      |-> FracDiv(total, travelers)])


\* --------------------------------------- TravelQueryParser: the parser
\* a key the JSON object of the completion does not hold
NoKey == -3

\* the JSON object of a completion answer, by the fields the parser reads
JsonAnswer(dep, ret, dur, trav) ==
    [kind |-> "json", departure_date |-> dep, return_date |-> ret,
     duration_days |-> dur, travelers |-> trav]
\* an answer that is no JSON, or a completion call that raised
NoJson(kind) ==
    [kind |-> kind, departure_date |-> NoKey, return_date |-> NoKey,
     duration_days |-> NoKey, travelers |-> NoKey]

\* no completion call made yet; no result returned yet
NoResponse == NoJson("pending")
NotParsed == NoJson("pending")
\* `return None` of lines 145-151
ReturnedNone == NoJson("none")

\* dict.setdefault(key, default): only a key that is not there is filled
setdefault(value, default) == IF value = NoKey THEN default ELSE value

\* TravelQueryParser.parse_travel_query, lines 116-151
parse_travel_query(resp) ==
    IF resp.kind # "json" THEN ReturnedNone
    ELSE IF resp.departure_date = NoKey THEN ReturnedNone       \* lines 119-121
    ELSE
    LET duration_days == setdefault(resp.duration_days, 1)
        travelers     == setdefault(resp.travelers, 1)
        departure     == resp.departure_date
        \* `not parsed_info.get('return_date')`
        no_return     == resp.return_date \in {NoKey, None}
    IN  IF no_return /\ duration_days = None THEN ReturnedNone  \* None > 1 raises
        ELSE [kind           |-> "json",
              departure_date |-> departure,
              return_date    |->
                  IF no_return /\ duration_days > 1
                  THEN IF departure \in {None, Malformed} THEN None   \* lines 139-141
                       ELSE strftime(strptime(departure) + timedelta(duration_days - 1))
                  ELSE resp.return_date,
              duration_days  |-> duration_days,
              travelers      |-> travelers]

\* ------------------------------------- TravelItineraryService: the budget
\* the arguments of a call that was not made, the dict of one not returned
NoArgs == [travelers |-> None, duration_days |-> 0, outbound_flights |-> <<>>,
           return_flights |-> <<>>, hotels |-> <<>>, budget_preference |-> Absent]
NoEstimate == [pending |-> TRUE]

\* the 'Total Price' values a comprehension keeps: `f.get('Total Price') and
\* str(f['Total Price']) != 'N/A'` (None stands for absent, empty or 'N/A')
Priced(rows) == SelectSeq(rows, LAMBDA p : p # None)

\* min([float(...) for ...] or [0])
Cheapest(rows) ==
    LET kept == Priced(rows) IN
    IF kept = <<>> THEN 0
    ELSE CHOOSE p \in {kept[i] : i \in 1..Len(kept)} :
            \A i \in 1..Len(kept) : p <= kept[i]

\* float(str(...).replace(',', '')) raises on one of the prices
PriceRaises(rows) == \E i \in 1..Len(rows) : rows[i] = Malformed

\* daily_expenses.get(budget_pref, 4000)
daily_expenses(budget_pref) ==
    CASE budget_pref = "budget" -> 2000
      [] budget_pref = "moderate" -> 4000
      [] budget_pref = "luxury" -> 8000
      [] OTHER -> 4000

\* the dict of the except branch, lines 358-360
FailedEstimate == [total |-> Whole(0), currency |-> "INR", error |-> "Could not calculate budget"]

\* (part / total_cost * 100) if total_cost > 0 else 0
Percentage(part, total_cost) ==
    IF total_cost > 0 THEN Frac(part * 100, total_cost) ELSE Whole(0)

\* TravelItineraryService._calculate_budget_estimate
_calculate_budget_estimate(args) ==
    LET travelers == args.travelers
        duration  == args.duration_days
        raises    == \/ travelers = None              \* parsed_travel['travelers']
                     \/ PriceRaises(args.outbound_flights)
                     \/ PriceRaises(args.return_flights)
                     \/ PriceRaises(args.hotels)
                     \/ travelers = 0                 \* total_cost / travelers
        flight_cost == (IF args.outbound_flights # <<>>
                        THEN Cheapest(args.outbound_flights) * travelers ELSE 0)
                     + (IF args.return_flights # <<>>
                        THEN Cheapest(args.return_flights) * travelers ELSE 0)
        hotel_cost  == IF args.hotels # <<>> THEN Cheapest(args.hotels) * duration ELSE 0
        activity_food_cost == daily_expenses(args.budget_preference) * travelers * duration
        transport_cost     == 500 * travelers * duration
        total_cost == flight_cost + hotel_cost + activity_food_cost + transport_cost
    IN  IF raises THEN FailedEstimate
        ELSE [flights         |-> Whole(flight_cost),
              accommodation   |-> Whole(hotel_cost),
              activities_food |-> Whole(activity_food_cost),
              local_transport |-> Whole(transport_cost),
              total           |-> Whole(total_cost),
              per_person      |-> Frac(total_cost, travelers),
              currency        |-> "INR",
              breakdown       |->
                  [flights_percentage         |-> Percentage(flight_cost, total_cost),
                   accommodation_percentage   |-> Percentage(hotel_cost, total_cost),
                   activities_food_percentage |-> Percentage(activity_food_cost, total_cost),
                   transport_percentage       |-> Percentage(transport_cost, total_cost)]]

\* ------------------------------------------------------- stubbed answers
\* the completion answers to the parsing prompt that the runs are given
ParseResponses ==
    { ParseFailed("raise"), ParseFailed("not_json"),
      ParsedJson(Absent, None, None, None, "standard"),
      ParsedJson("", Today + 1, Today + 3, 1, "standard"),
      ParsedJson("Not specified", Today + 1, None, 2, "standard"),
      ParsedJson("not specified", Today - 1, Today + 2, None, "budget"),
      ParsedJson("Mumbai", Today + 2, Today + 4, 2, "standard"),
      ParsedJson("Mumbai", Malformed, Today, 0, "standard") }

\* the answers of the flight inventory
FlightResponses ==
    { FlightRaise, FlightNone,
      FlightDf(<<Flight(Absent, 8000)>>, "BOM"),
      FlightDf(<<Flight("BOM", 7000), Flight("DEL", 6000), Flight("BOM", 5000)>>, "BOM"),
      FlightDf(<<Flight(Absent, Malformed)>>, "BOM") }

\* the answers of the hotel inventory
HotelResponses ==
    { HotelRaise, HotelNone, HotelDf(<<4000, 2000>>), HotelDf(<<Malformed>>) }

\* the answers of a completion call of an adviser
CompletionResponses == {"raise", "answer"}

\* --------------------------------------------------------------- state
Runs == {1, 2}

VARIABLES
    plan,                   \* StreamingTravelService.stream_travel_plan: its position, events and tasks
    connected,              \* per run: the caller is still connected to the stream
    response_text,          \* the JSON object the completion answered to TravelQueryParser
    parsed_info,            \* the dict parse_travel_query returned
    estimate_args,          \* the arguments of TravelItineraryService._calculate_budget_estimate
    budget_estimate,        \* the dict it returned
    query,                  \* the query text both runs are given
    api_key,                \* settings.OPENAI_API_KEY is set
    now,                    \* datetime.now()
    stub,                   \* the answer each collaborator has given so far
    pc,                     \* per run: the yield the generator is suspended at
    events,                 \* per run: the dicts yielded by stream_travel_plan
    sse,                    \* per run: the messages delivered by event_stream
    intent_result,          \* per run: local intent_result
    parsed_travel,          \* per run: local parsed_travel
    current_progress,       \* per run: local current_progress
    progress_per_component, \* per run: local progress_per_component
    flight_results,         \* per run: local flight_results
    hotel_results,          \* per run: local hotel_results
    budget,                 \* per run: the data of the budget event
    calls,                  \* per run: the searchers invoked, in order
    classified              \* detect_intent(query), once it has been computed

vars == <<plan, connected, response_text, parsed_info, estimate_args, budget_estimate, query, api_key, now, stub, pc, events, sse, intent_result, parsed_travel,
          current_progress, progress_per_component, flight_results, hotel_results,
          budget, calls, classified>>

\* a progress value; events without a "progress" key carry NoProgress
NoProgress == Whole(None)
Event(type, progress) == [type |-> type, progress |-> progress, needs_origin |-> FALSE]

NoStub == [parse |-> <<>>, flights |-> <<>>, hotels |-> <<>>,
           attractions |-> <<>>, itinerary |-> <<>>, tips |-> <<>>]

\* StreamingTravelService.stream_travel_plan before its first step: no event
\* yielded, nothing parsed, none of the three tasks created
TaskNames == {"flight_task", "hotel_task", "attractions_task"}
NoPlan == [pc |-> "start", events |-> <<>>, parsed_travel |-> "pending",
           task |-> [t \in TaskNames |-> "absent"],
           data |-> [t \in TaskNames |-> "absent"],
           completed |-> <<>>]

\* a deterministic stub: the first answer to a call is the answer to it
Answers(collaborator, all) ==
    IF stub[collaborator] = <<>> THEN all ELSE {stub[collaborator][1]}
Record(collaborator, resp) ==
    stub' = [stub EXCEPT ![collaborator] = <<resp>>]

RunInit(started) ==
    /\ api_key \in BOOLEAN
    /\ now \in {Today * TicksPerDay, Today * TicksPerDay + 1}
    /\ stub = NoStub
    /\ pc = [r \in Runs |-> IF r \in started THEN "init" ELSE "absent"]
    /\ events = [r \in Runs |-> <<>>]
    /\ sse = [r \in Runs |-> <<>>]
    /\ intent_result = [r \in Runs |-> NoIntent]
    /\ parsed_travel = [r \in Runs |-> NoParse]
    /\ current_progress = [r \in Runs |-> Whole(0)]
    /\ progress_per_component = [r \in Runs |-> Whole(0)]
    /\ flight_results = [r \in Runs |-> NoFlights]
    /\ hotel_results = [r \in Runs |-> NoHotels]
    /\ budget = [r \in Runs |-> NoBudget]
    /\ calls = [r \in Runs |-> <<>>]
    /\ estimate_args = NoArgs
    /\ budget_estimate = NoEstimate
    /\ response_text = NoResponse
    /\ parsed_info = NotParsed
    /\ plan = NoPlan
    /\ connected = [r \in Runs |-> TRUE]
    \* detect_intent is a pure function of the text: its result for the
    \* query is computed once here and read by every run at line 58
    /\ classified = detect_intent(query)

\* one request
Init == query \in StreamQueries /\ RunInit({1})

\* two requests with the same query text, date and collaborator answers
InitPair ==
    /\ query \in StreamQueries
    /\ RunInit({1, 2})
    /\ api_key
    /\ now = Today * TicksPerDay + 1

\* the generator yields ev; event_stream forwards it as one SSE message
Yield(r, ev, to) ==
    /\ events' = [events EXCEPT ![r] = Append(@, ev)]
    /\ sse' = [sse EXCEPT ![r] = Append(@, ev)]
    /\ pc' = [pc EXCEPT ![r] = to]

\* lines 229-235: the catch-all handler of stream_travel_plan
CatchAll(r) == Yield(r, Event("error", Whole(0)), "error")

Invoke(r, searcher) == calls' = [calls EXCEPT ![r] = Append(@, searcher)]

\* ------------------------------------------------- stream_travel_plan
\* event_stream lines 16-19 and stream_travel_plan lines 56-66: the service
\* is constructed, the intent detected, the intent event yielded
Begin(r) ==
    /\ pc[r] = "init"
    /\ IF ~api_key
       THEN \* SmartStreamingService() raises ValueError: lines 30-33
            /\ sse' = [sse EXCEPT ![r] = Append(@, Event("error", NoProgress))]
            /\ pc' = [pc EXCEPT ![r] = "closed"]
            /\ UNCHANGED <<events, intent_result>>
       ELSE /\ intent_result' = [intent_result EXCEPT ![r] = classified]
            /\ Yield(r, Event("intent", Whole(5)), "intent")
    /\ UNCHANGED <<plan, connected, response_text, parsed_info, estimate_args, budget_estimate, query, api_key, now, stub, parsed_travel, current_progress,
                   progress_per_component, flight_results, hotel_results, budget,
                   calls, classified>>

\* the parse of line 70 left out: the run goes from status 10 to status 15
ResumeAfterIntent_skips_parser(r) ==
    /\ pc[r] = "intent"
    /\ events' = [events EXCEPT ![r] = @ \o <<Event("status", Whole(10)), Event("status", Whole(15))>>]
    /\ sse' = [sse EXCEPT ![r] = @ \o <<Event("status", Whole(10)), Event("status", Whole(15))>>]
    /\ pc' = [pc EXCEPT ![r] = "status15"]
    /\ UNCHANGED <<plan, connected, response_text, parsed_info, estimate_args, budget_estimate, query, api_key, now, stub, intent_result,
                   parsed_travel, current_progress, progress_per_component, flight_results,
                   hotel_results, budget, calls, classified>>

\* line 69
ResumeAfterIntent(r) ==
    /\ pc[r] = "intent"
    /\ Yield(r, Event("status", Whole(10)), "status10")
    /\ UNCHANGED <<plan, connected, response_text, parsed_info, estimate_args, budget_estimate, query, api_key, now, stub, intent_result, parsed_travel,
                   current_progress, progress_per_component, flight_results,
                   hotel_results, budget, calls, classified>>

\* the parsed request kept on the shared service object (self.parsed_travel)
\* instead of in a local variable: every run sees the last one parsed
ParseQuery_on_singleton(r) ==
    /\ pc[r] = "status10"
    /\ \E resp \in Answers("parse", ParseResponses) :
          LET parsed == _parse_travel_query_async(resp, now) IN
          /\ Record("parse", resp)
          /\ parsed_travel' = [o \in Runs |-> parsed]
          /\ IF AfterParse(parsed) = "error"
             THEN Yield(r, Event("error", NoProgress), "error")
             ELSE IF AfterParse(parsed) = "needs_origin"
             THEN Yield(r, [Event("error", NoProgress) EXCEPT !.needs_origin = TRUE], "error")
             ELSE Yield(r, Event("status", Whole(15)), "status15")
    /\ Invoke(r, "parse")
    /\ UNCHANGED <<plan, connected, response_text, parsed_info, estimate_args, budget_estimate,
                   query, api_key, now, intent_result, current_progress,
                   progress_per_component, flight_results, hotel_results, budget,
                   classified>>

\* lines 70-86: the query is parsed; the run ends on a parse failure or a
\* missing origin
ParseQuery(r) ==
    /\ pc[r] = "status10"
    /\ \E resp \in Answers("parse", ParseResponses) :
          LET parsed == _parse_travel_query_async(resp, now) IN
          /\ Record("parse", resp)
          /\ parsed_travel' = [parsed_travel EXCEPT ![r] = parsed]
          /\ IF AfterParse(parsed) = "error"
             THEN Yield(r, Event("error", NoProgress), "error")
             ELSE IF AfterParse(parsed) = "needs_origin"
             THEN Yield(r, [Event("error", NoProgress) EXCEPT !.needs_origin = TRUE], "error")
             ELSE Yield(r, Event("status", Whole(15)), "status15")
    /\ Invoke(r, "parse")
    /\ UNCHANGED <<plan, connected, response_text, parsed_info, estimate_args, budget_estimate, query, api_key, now, intent_result, current_progress,
                   progress_per_component, flight_results, hotel_results, budget,
                   classified>>

\* lines 87-104
ResumeSummary(r) ==
    /\ pc[r] = "status15"
    /\ Yield(r, Event("summary", Whole(20)), "summary")
    /\ UNCHANGED <<plan, connected, response_text, parsed_info, estimate_args, budget_estimate, query, api_key, now, stub, intent_result, parsed_travel,
                   current_progress, progress_per_component, flight_results,
                   hotel_results, budget, calls, classified>>

\* line 107: sum(1 for v in components.values() if v and v != 'summary');
\* v is a flag, never the string 'summary', so the summary flag is counted
total_components(components) ==
    Cardinality({c \in ComponentNames : components[c]})

Max(a, b) == IF a > b THEN a ELSE b

\* line 108
ProgressPerComponent(components) ==
    Frac(70, Max(total_components(components), 1))

\* the stage whose event (or warning) the generator is suspended at
StageAt(at) == IF at = "flights_warning" THEN "flights" ELSE at

\* the index in Stages of that stage (0 at the summary)
StageIndex(at) ==
    IF at = "summary" THEN 0
    ELSE CHOOSE k \in 1..6 : Stages[k] = StageAt(at)

\* every stage is run, whatever the flags
NextRequested_ignores_flags(components, i) == IF i < 6 THEN i + 1 ELSE 7

\* the `if components.get(...)` tests of lines 111-211 passed over until one
\* holds: the next requested stage after index i, 7 when none is left
NextRequested(components, i) ==
    IF \E k \in (i + 1)..6 : components[Stages[k]]
    THEN CHOOSE k \in (i + 1)..6 :
            /\ components[Stages[k]]
            /\ \A j \in (i + 1)..(k - 1) : ~components[Stages[j]]
    ELSE 7

\* the progress kept on the shared service object instead
SharedProgress(r) == current_progress[1]

\* line 106: current_progress is a local variable of the run
LocalProgress(r) == current_progress[r]

\* the position of a generator that has yielded the status of a stage
StatusPc(stage) ==
    CASE stage = "flights" -> "flights_status"
      [] stage = "hotels" -> "hotels_status"
      [] stage = "attractions" -> "attractions_status"
      [] stage = "itinerary" -> "itinerary_status"
      [] stage = "budget" -> "budget_status"
      [] stage = "tips" -> "tips_status"

\* the generator returns after the last stage without its closing event
YieldComplete_forgotten(r) ==
    /\ pc' = [pc EXCEPT ![r] = "complete"]
    /\ UNCHANGED <<events, sse>>

\* lines 223-227: the closing event of a run
YieldComplete(r) == Yield(r, Event("complete", Whole(100)), "complete")

\* the generator resumes after the summary or a stage's event, skips the
\* stages not requested and yields the status of the next one, or `complete`
EnterStage(r) ==
    /\ pc[r] \in {"summary", "flights", "flights_warning", "hotels", "attractions",
                  "itinerary", "budget", "tips"}
    /\ LET components == intent_result[r].components
           ppc == IF pc[r] = "summary" THEN ProgressPerComponent(components)
                  ELSE progress_per_component[r]
           cp  == IF pc[r] = "summary" THEN Whole(20)                             \* line 106
                  ELSE IF pc[r] = "flights_warning"
                  THEN FracAdd(LocalProgress(r), ppc)                             \* line 149
                  ELSE LocalProgress(r)
           k   == NextRequested(components, StageIndex(pc[r]))
       IN  /\ progress_per_component' = [progress_per_component EXCEPT ![r] = ppc]
           /\ current_progress' = [current_progress EXCEPT ![r] = cp]
           /\ IF k = 7 THEN YieldComplete(r)
              ELSE IF Stages[k] = "tips"
              THEN Yield(r, Event("status", Whole(90)), "tips_status")
              ELSE Yield(r, Event("status", FracAdd(cp, Whole(5))), StatusPc(Stages[k]))
    /\ UNCHANGED <<plan, connected, response_text, parsed_info, estimate_args, budget_estimate, query, api_key, now, stub, intent_result, parsed_travel,
                   flight_results, hotel_results, budget, calls, classified>>

\* lines 114-149: the flights stage
FlightsStage(r) ==
    /\ pc[r] = "flights_status"
    /\ \E resp \in Answers("flights", FlightResponses) :
          LET res == _search_flights_async(resp)
              cp  == FracAdd(LocalProgress(r), progress_per_component[r])
          IN
          /\ Record("flights", resp)
          /\ IF res.raised
             THEN \* the inner handler of lines 141-148
                  /\ Yield(r, Event("warning", LocalProgress(r)), "flights_warning")
                  /\ UNCHANGED <<flight_results, current_progress>>
             ELSE /\ flight_results' = [flight_results EXCEPT ![r] =
                         [given |-> TRUE, outbound |-> res.value.outbound,
                          return |-> res.value.return]]
                  /\ IF FlightFormattingRaises(res.value)
                     THEN /\ Yield(r, Event("warning", LocalProgress(r)), "flights_warning")
                          /\ UNCHANGED current_progress
                     ELSE /\ current_progress' = [current_progress EXCEPT ![r] = cp]
                          /\ Yield(r, Event("flights", cp), "flights")
    /\ Invoke(r, "flights")
    /\ UNCHANGED <<plan, connected, response_text, parsed_info, estimate_args, budget_estimate, query, api_key, now, intent_result, parsed_travel,
                   progress_per_component, hotel_results, budget, classified>>

\* lines 153-165: the hotels stage
HotelsStage(r) ==
    /\ pc[r] = "hotels_status"
    /\ \E resp \in Answers("hotels", HotelResponses) :
          LET res == _search_hotels_async(resp)
              cp  == FracAdd(LocalProgress(r), progress_per_component[r])
          IN
          /\ Record("hotels", resp)
          /\ IF res.raised
             THEN /\ CatchAll(r)
                  /\ UNCHANGED <<hotel_results, current_progress>>
             ELSE /\ hotel_results' = [hotel_results EXCEPT ![r] =
                         [given |-> TRUE, rows |-> res.value]]
                  /\ current_progress' = [current_progress EXCEPT ![r] = cp]
                  /\ Yield(r, Event("hotels", cp), "hotels")
    /\ Invoke(r, "hotels")
    /\ UNCHANGED <<plan, connected, response_text, parsed_info, estimate_args, budget_estimate, query, api_key, now, intent_result, parsed_travel,
                   progress_per_component, flight_results, budget, classified>>

\* lines 169-178: the attractions stage
AttractionsStage(r) ==
    /\ pc[r] = "attractions_status"
    /\ \E resp \in Answers("attractions", CompletionResponses) :
          LET res == _get_attractions_async(resp)
              cp  == FracAdd(LocalProgress(r), progress_per_component[r])
          IN
          /\ Record("attractions", resp)
          /\ IF res.raised
             THEN CatchAll(r) /\ UNCHANGED current_progress
             ELSE /\ current_progress' = [current_progress EXCEPT ![r] = cp]
                  /\ Yield(r, Event("attractions", cp), "attractions")
    /\ Invoke(r, "attractions")
    /\ UNCHANGED <<plan, connected, response_text, parsed_info, estimate_args, budget_estimate, query, api_key, now, intent_result, parsed_travel,
                   progress_per_component, flight_results, hotel_results, budget,
                   classified>>

\* lines 182-191: the itinerary stage
ItineraryStage(r) ==
    /\ pc[r] = "itinerary_status"
    /\ \E resp \in Answers("itinerary", CompletionResponses) :
          LET res == _create_itinerary_async(resp)
              cp  == FracAdd(LocalProgress(r), progress_per_component[r])
          IN
          /\ Record("itinerary", resp)
          /\ IF res.raised
             THEN CatchAll(r) /\ UNCHANGED current_progress
             ELSE /\ current_progress' = [current_progress EXCEPT ![r] = cp]
                  /\ Yield(r, Event("itinerary", cp), "itinerary")
    /\ Invoke(r, "itinerary")
    /\ UNCHANGED <<plan, connected, response_text, parsed_info, estimate_args, budget_estimate, query, api_key, now, intent_result, parsed_travel,
                   progress_per_component, flight_results, hotel_results, budget,
                   classified>>

\* lines 195-208: the budget stage
BudgetStage(r) ==
    /\ pc[r] = "budget_status"
    /\ LET components == intent_result[r].components
           res == _calculate_budget_async(parsed_travel[r],
                      IF components.flights THEN flight_results[r] ELSE NoFlights,
                      IF components.hotels THEN hotel_results[r] ELSE NoHotels)
           cp  == FracAdd(LocalProgress(r), progress_per_component[r])
       IN  IF res.raised
           THEN CatchAll(r) /\ UNCHANGED <<current_progress, budget>>
           ELSE /\ budget' = [budget EXCEPT ![r] = res.value]
                /\ current_progress' = [current_progress EXCEPT ![r] = cp]
                /\ Yield(r, Event("budget", cp), "budget")
    /\ Invoke(r, "budget")
    /\ UNCHANGED <<plan, connected, response_text, parsed_info, estimate_args, budget_estimate, query, api_key, now, stub, intent_result, parsed_travel,
                   progress_per_component, flight_results, hotel_results, classified>>

\* lines 212-220: the tips stage
TipsStage(r) ==
    /\ pc[r] = "tips_status"
    /\ \E resp \in Answers("tips", CompletionResponses) :
          LET res == _get_travel_tips_async(resp) IN
          /\ Record("tips", resp)
          /\ IF res.raised
             THEN CatchAll(r)
             ELSE Yield(r, Event("tips", Whole(95)), "tips")
    /\ Invoke(r, "tips")
    /\ UNCHANGED <<plan, connected, response_text, parsed_info, estimate_args, budget_estimate, query, api_key, now, intent_result, parsed_travel, current_progress,
                   progress_per_component, flight_results, hotel_results, budget,
                   classified>>

\* the closing message sent with the type of a failure
Finish_sends_error(r) ==
    /\ pc[r] \in {"complete", "error"}
    /\ sse' = [sse EXCEPT ![r] = Append(@, Event("error", NoProgress))]
    /\ pc' = [pc EXCEPT ![r] = "closed"]
    /\ UNCHANGED <<plan, connected, response_text, parsed_info, estimate_args, budget_estimate, query, api_key, now, stub, events, intent_result, parsed_travel,
                   current_progress, progress_per_component, flight_results,
                   hotel_results, budget, calls, classified>>

\* the generator returns after `complete` or an `error`; event_stream line 28
\* sends its closing message
Finish(r) ==
    /\ pc[r] \in {"complete", "error"}
    /\ sse' = [sse EXCEPT ![r] = Append(@, Event("done", NoProgress))]
    /\ pc' = [pc EXCEPT ![r] = "closed"]
    /\ UNCHANGED <<plan, connected, response_text, parsed_info, estimate_args, budget_estimate, query, api_key, now, stub, events, intent_result, parsed_travel,
                   current_progress, progress_per_component, flight_results,
                   hotel_results, budget, calls, classified>>

\* the exception a disconnect raises in a run: when the caller goes away the
\* server cancels the task that consumes event_stream; asyncio.CancelledError
\* is raised at the await the task is suspended at (the asyncio.sleep of a
\* searcher or of event_stream line 25), and a generator abandoned at a yield
\* gets GeneratorExit when it is closed
DisconnectSignals == {"CancelledError", "GeneratorExit"}

\* a handler `except BaseException`: every exception is caught
ExceptBaseException(exc) == TRUE

\* `except Exception` (lines 141, 229, the searchers, event_stream line 30):
\* CancelledError and GeneratorExit derive from BaseException only
ExceptException(exc) == exc \notin DisconnectSignals

\* the positions at which a run is suspended: at a yielded event, or (from
\* the status of a stage) at the asyncio.sleep that opens its searcher
Suspended == {"intent", "status10", "status15", "summary", "flights_status",
              "flights", "flights_warning", "hotels_status", "hotels",
              "attractions_status", "attractions", "itinerary_status",
              "itinerary", "budget_status", "budget", "tips_status", "tips",
              "complete", "error"}

\* the caller of run r disconnects: the exception passes the handlers of the
\* searcher, of stream_travel_plan and of event_stream, and the run is over
Disconnect(r) ==
    /\ connected[r]
    /\ pc[r] \in Suspended
    /\ connected' = [connected EXCEPT ![r] = FALSE]
    /\ \E exc \in DisconnectSignals :
          IF ExceptException(exc)
          THEN CatchAll(r)
          ELSE /\ pc' = [pc EXCEPT ![r] = "cancelled"]
               /\ UNCHANGED <<events, sse>>
    /\ UNCHANGED <<plan, response_text, parsed_info, estimate_args, budget_estimate, query,
                   api_key, now, stub, intent_result, parsed_travel,
                   current_progress, progress_per_component, flight_results,
                   hotel_results, budget, calls, classified>>

Step(r) ==
    \/ Begin(r)
    \/ ResumeAfterIntent(r)
    \/ ParseQuery(r)
    \/ ResumeSummary(r)
    \/ EnterStage(r)
    \/ FlightsStage(r)
    \/ HotelsStage(r)
    \/ AttractionsStage(r)
    \/ ItineraryStage(r)
    \/ BudgetStage(r)
    \/ TipsStage(r)
    \/ Finish(r)

Next == \E r \in Runs : Step(r)

Spec == Init /\ [][Next]_vars

\* two runs with the same inputs
SpecPair == InitPair /\ [][Next]_vars

\* every suspended generator is resumed: event_stream's `async for` asks for
\* the next event until the generator returns
LiveSpec == Init /\ [][Next]_vars /\ \A r \in Runs : WF_vars(Step(r))

\* a request whose caller may disconnect at any suspension point
NextCancel == \E r \in Runs : Step(r) \/ Disconnect(r)

SpecCancel == Init /\ [][NextCancel]_vars

\* ------------------------------------------------ classifier on its own
\* every query of at most MaxWords words of the vocabulary
Queries ==
    UNION { { Join(ws) : ws \in [1..n -> Vocabulary] } : n \in 1..MaxWords }

InitIntent ==
    /\ query \in Queries
    /\ api_key = TRUE
    /\ now = Today * TicksPerDay
    /\ stub = NoStub
    /\ pc = [r \in Runs |-> "absent"]
    /\ events = [r \in Runs |-> <<>>]
    /\ sse = [r \in Runs |-> <<>>]
    /\ intent_result = [r \in Runs |-> NoIntent]
    /\ parsed_travel = [r \in Runs |-> NoParse]
    /\ current_progress = [r \in Runs |-> Whole(0)]
    /\ progress_per_component = [r \in Runs |-> Whole(0)]
    /\ flight_results = [r \in Runs |-> NoFlights]
    /\ hotel_results = [r \in Runs |-> NoHotels]
    /\ budget = [r \in Runs |-> NoBudget]
    /\ calls = [r \in Runs |-> <<>>]
    /\ estimate_args = NoArgs
    /\ budget_estimate = NoEstimate
    /\ response_text = NoResponse
    /\ parsed_info = NotParsed
    /\ plan = NoPlan
    /\ connected = [r \in Runs |-> TRUE]
    /\ classified = NoIntent

\* detect_intent is applied to the query
Classify ==
    /\ classified = NoIntent
    /\ classified' = detect_intent(query)
    /\ UNCHANGED <<plan, connected, response_text, parsed_info, estimate_args, budget_estimate, query, api_key, now, stub, pc, events, sse, intent_result,
                   parsed_travel, current_progress, progress_per_component,
                   flight_results, hotel_results, budget, calls>>

NextIntent == Classify

SpecIntent == InitIntent /\ [][NextIntent]_vars

\* ---------------------------------------------------- parser on its own
\* how far from today, in days, the dates of a completion answer lie
DateSpan == 3

\* the date fields of a completion answer: absent, unparseable, or a day
RawDates == {None, Malformed} \cup ((Today - DateSpan)..(Today + DateSpan))

\* the completion answers JSON with any pair of date fields; datetime.now()
\* falls anywhere in today
InitParse ==
    /\ query = <<"f","l","i","g","h","t","s"," ","t","o"," ","g","o","a">>
    /\ api_key = TRUE
    /\ now \in {Today * TicksPerDay + t : t \in 0..(TicksPerDay - 1)}
    /\ \E dep \in RawDates, ret \in RawDates :
          stub = [NoStub EXCEPT !.parse = <<ParsedJson("Mumbai", dep, ret, 2, "standard")>>]
    /\ pc = [r \in Runs |-> "absent"]
    /\ events = [r \in Runs |-> <<>>]
    /\ sse = [r \in Runs |-> <<>>]
    /\ intent_result = [r \in Runs |-> NoIntent]
    /\ parsed_travel = [r \in Runs |-> NoParse]
    /\ current_progress = [r \in Runs |-> Whole(0)]
    /\ progress_per_component = [r \in Runs |-> Whole(0)]
    /\ flight_results = [r \in Runs |-> NoFlights]
    /\ hotel_results = [r \in Runs |-> NoHotels]
    /\ budget = [r \in Runs |-> NoBudget]
    /\ calls = [r \in Runs |-> <<>>]
    /\ estimate_args = NoArgs
    /\ budget_estimate = NoEstimate
    /\ response_text = NoResponse
    /\ parsed_info = NotParsed
    /\ plan = NoPlan
    /\ connected = [r \in Runs |-> TRUE]
    /\ classified = NoIntent

\* _parse_travel_query_async is applied to the completion answer
Parse ==
    /\ calls[1] = <<>>
    /\ parsed_travel' = [parsed_travel EXCEPT ![1] = _parse_travel_query_async(stub.parse[1], now)]
    /\ calls' = [calls EXCEPT ![1] = <<"parse">>]
    /\ UNCHANGED <<plan, connected, response_text, parsed_info, estimate_args, budget_estimate, query, api_key, now, stub, pc, events, sse, intent_result,
                   current_progress, progress_per_component, flight_results,
                   hotel_results, budget, classified>>

NextParse == Parse

SpecParse == InitParse /\ [][NextParse]_vars

\* ------------------------------------------- budget estimate on its own
\* the price lists given to the estimator: none, unpriced, priced, unparseable
PriceLists == { <<>>, <<None>>, <<5000, 3000>>, <<3000, None>>, <<Malformed, 4000>> }

InitEstimate ==
    /\ estimate_args \in
          [travelers : {None, 0, 1, 2}, duration_days : {0, 1, 3},
           outbound_flights : PriceLists, return_flights : {<<>>, <<4000>>},
           hotels : PriceLists, budget_preference : {"budget", "luxury", Absent}]
    /\ budget_estimate = NoEstimate
    /\ response_text = NoResponse
    /\ parsed_info = NotParsed
    /\ plan = NoPlan
    /\ connected = [r \in Runs |-> TRUE]
    /\ query = <<"g","o","a">>
    /\ api_key = TRUE
    /\ now = Today * TicksPerDay
    /\ stub = NoStub
    /\ pc = [r \in Runs |-> "absent"]
    /\ events = [r \in Runs |-> <<>>]
    /\ sse = [r \in Runs |-> <<>>]
    /\ intent_result = [r \in Runs |-> NoIntent]
    /\ parsed_travel = [r \in Runs |-> NoParse]
    /\ current_progress = [r \in Runs |-> Whole(0)]
    /\ progress_per_component = [r \in Runs |-> Whole(0)]
    /\ flight_results = [r \in Runs |-> NoFlights]
    /\ hotel_results = [r \in Runs |-> NoHotels]
    /\ budget = [r \in Runs |-> NoBudget]
    /\ calls = [r \in Runs |-> <<>>]
    /\ classified = NoIntent

\* create_complete_itinerary line 91: the estimate is computed
Estimate ==
    /\ budget_estimate = NoEstimate
    /\ budget_estimate' = _calculate_budget_estimate(estimate_args)
    /\ UNCHANGED <<plan, connected, response_text, parsed_info, estimate_args, query, api_key, now, stub, pc, events, sse,
                   intent_result, parsed_travel, current_progress,
                   progress_per_component, flight_results, hotel_results, budget,
                   calls, classified>>

NextEstimate == Estimate

SpecEstimate == InitEstimate /\ [][NextEstimate]_vars

\* ------------------------------------------ TravelQueryParser on its own
\* the longest trip, in days, a completion answer gives
MaxDuration == 3

\* the completion answers JSON with any departure date, return date,
\* duration and traveler count, or answers no JSON
InitTravelParser ==
    /\ response_text \in
          {NoJson("not_json")} \cup
          { JsonAnswer(dep, ret, dur, trav) :
                dep \in RawDates \cup {NoKey},
                ret \in {NoKey, None} \cup ((Today - DateSpan)..(Today + DateSpan)),
                dur \in {NoKey, None} \cup (0..MaxDuration),
                trav \in {NoKey, None, 0, 2} }
    /\ parsed_info = NotParsed
    /\ plan = NoPlan
    /\ connected = [r \in Runs |-> TRUE]
    /\ estimate_args = NoArgs
    /\ budget_estimate = NoEstimate
    /\ query = <<"g","o","a">>
    /\ api_key = TRUE
    /\ now = Today * TicksPerDay
    /\ stub = NoStub
    /\ pc = [r \in Runs |-> "absent"]
    /\ events = [r \in Runs |-> <<>>]
    /\ sse = [r \in Runs |-> <<>>]
    /\ intent_result = [r \in Runs |-> NoIntent]
    /\ parsed_travel = [r \in Runs |-> NoParse]
    /\ current_progress = [r \in Runs |-> Whole(0)]
    /\ progress_per_component = [r \in Runs |-> Whole(0)]
    /\ flight_results = [r \in Runs |-> NoFlights]
    /\ hotel_results = [r \in Runs |-> NoHotels]
    /\ budget = [r \in Runs |-> NoBudget]
    /\ calls = [r \in Runs |-> <<>>]
    /\ classified = NoIntent

\* create_complete_itinerary line 62: the query is parsed
ParseTravelQuery ==
    /\ parsed_info = NotParsed
    /\ parsed_info' = parse_travel_query(response_text)
    /\ UNCHANGED <<plan, connected, response_text, estimate_args, budget_estimate, query, api_key, now,
                   stub, pc, events, sse, intent_result, parsed_travel,
                   current_progress, progress_per_component, flight_results,
                   hotel_results, budget, calls, classified>>

NextTravelParser == ParseTravelQuery

SpecTravelParser == InitTravelParser /\ [][NextTravelParser]_vars

\* ------------------------------ StreamingTravelService.stream_travel_plan
\* The generator of streaming_travel_service.py.  plan.pc names the yield the
\* generator is suspended at ("awaiting": the await of flight_task);
\* plan.task is the state of each asyncio task, plan.data the dict it
\* returned, plan.completed the tasks in the order they completed.

\* what _parse_travel_query_async can give: None, a dict whose origin is
\* absent, a dict that lacks a key the summary reads, a dict without and a
\* dict with a return date
ParsedKinds == {"none", "no_origin", "missing_key", "one_way", "round_trip"}

\* what a search task returns: rows, or the empty result that is also the
\* result of its except branch
TaskData == {"found", "empty"}

\* everything that is not state of StreamingTravelService
others == <<connected, response_text, parsed_info, estimate_args, budget_estimate,
            query, api_key, now, stub, pc, events, sse, intent_result, parsed_travel,
            current_progress, progress_per_component, flight_results, hotel_results,
            budget, calls, classified>>

PlanEvent(type, progress, data) == [type |-> type, progress |-> progress, data |-> data]

PlanYield(event, next) ==
    plan' = [plan EXCEPT !.events = Append(@, event), !.pc = next]

\* the except branch of stream_travel_plan: one error event, then the end
PlanError == PlanYield(PlanEvent("error", None, "error"), "error")

\* asyncio.create_task(...)
create_task(t) == [plan.task EXCEPT ![t] = "created"]

\* an await that does not wait for the task
Await_without_waiting(t) == TRUE

\* `await task`: the generator goes on once the task is done
Await(t) == plan.task[t] = "done"

\* lines 46-48: status 5
PlanStart ==
    /\ plan.pc = "start"
    /\ PlanYield(PlanEvent("status", 5, "none"), "status5")
    /\ UNCHANGED others

\* lines 50-78: the parse, the two early errors and the summary
PlanParse ==
    /\ plan.pc = "status5"
    /\ \E parsed \in ParsedKinds :
         LET event == CASE parsed = "none" -> PlanEvent("error", None, "error")
                        [] parsed = "no_origin" -> PlanEvent("error", None, "needs_origin")
                        [] parsed = "missing_key" -> PlanEvent("error", None, "error")
                        [] OTHER -> PlanEvent("summary", 15, parsed)
         IN plan' = [plan EXCEPT !.parsed_travel = parsed,
                                 !.events = Append(@, event),
                                 !.pc = IF event.type = "error" THEN "error" ELSE "summary"]
    /\ UNCHANGED others

\* line 80: status 20
PlanStatus20 ==
    /\ plan.pc = "summary"
    /\ PlanYield(PlanEvent("status", 20, "none"), "status20")
    /\ UNCHANGED others

\* lines 82-85: flight_task is created, status 30
PlanCreateFlightTask ==
    /\ plan.pc = "status20"
    /\ plan' = [plan EXCEPT !.task = create_task("flight_task"),
                            !.events = Append(@, PlanEvent("status", 30, "none")),
                            !.pc = "status30"]
    /\ UNCHANGED others

\* lines 87-90: hotel_task is created, status 40
PlanCreateHotelTask ==
    /\ plan.pc = "status30"
    /\ plan' = [plan EXCEPT !.task = create_task("hotel_task"),
                            !.events = Append(@, PlanEvent("status", 40, "none")),
                            !.pc = "status40"]
    /\ UNCHANGED others

\* lines 92-95: attractions_task is created, the generator awaits flight_task
PlanCreateAttractionsTask ==
    /\ plan.pc = "status40"
    /\ plan' = [plan EXCEPT !.task = create_task("attractions_task"), !.pc = "awaiting"]
    /\ UNCHANGED others

\* lines 95-100
PlanFlights ==
    /\ plan.pc = "awaiting"
    /\ Await("flight_task")
    /\ PlanYield(PlanEvent("flights", 50, plan.data["flight_task"]), "flights")
    /\ UNCHANGED others

\* lines 102-107
PlanHotels ==
    /\ plan.pc = "flights"
    /\ Await("hotel_task")
    /\ PlanYield(PlanEvent("hotels", 60, plan.data["hotel_task"]), "hotels")
    /\ UNCHANGED others

\* lines 109-114
PlanAttractions ==
    /\ plan.pc = "hotels"
    /\ Await("attractions_task")
    /\ PlanYield(PlanEvent("attractions", 70, plan.data["attractions_task"]), "attractions")
    /\ UNCHANGED others

\* line 117: status 75
PlanStatus75 ==
    /\ plan.pc = "attractions"
    /\ PlanYield(PlanEvent("status", 75, "none"), "status75")
    /\ UNCHANGED others

\* lines 119-124: _create_itinerary_async has no except of its own
PlanItinerary ==
    /\ plan.pc = "status75"
    /\ \/ PlanYield(PlanEvent("itinerary", 85, "itinerary"), "itinerary")
       \/ PlanError
    /\ UNCHANGED others

\* line 127: status 90
PlanStatus90 ==
    /\ plan.pc = "itinerary"
    /\ PlanYield(PlanEvent("status", 90, "none"), "status90")
    /\ UNCHANGED others

\* lines 129-134: _calculate_budget_async has no except of its own
PlanBudget ==
    /\ plan.pc = "status90"
    /\ \/ PlanYield(PlanEvent("budget", 95, "budget"), "budget")
       \/ PlanError
    /\ UNCHANGED others

\* lines 137-142
PlanTips ==
    /\ plan.pc = "budget"
    /\ PlanYield(PlanEvent("tips", 100, "tips"), "tips")
    /\ UNCHANGED others

\* line 145
PlanComplete ==
    /\ plan.pc = "tips"
    /\ PlanYield(PlanEvent("complete", 100, "none"), "complete")
    /\ UNCHANGED others

\* the event loop runs a created task up to its first asyncio.to_thread
TaskStart(t) ==
    /\ plan.task[t] = "created"
    /\ plan' = [plan EXCEPT !.task[t] = "running"]
    /\ UNCHANGED others

\* _search_flights_async, lines 236-246: with a return date the flight task
\* goes on to a second lookup
FlightTaskReturnLeg ==
    /\ plan.task["flight_task"] = "running"
    /\ plan.parsed_travel = "round_trip"
    /\ plan' = [plan EXCEPT !.task["flight_task"] = "running_return"]
    /\ UNCHANGED others

\* the task returns: its result, or the empty result of its except branch
TaskDone(t) ==
    /\ \/ plan.task[t] = "running" /\ ~(t = "flight_task" /\ plan.parsed_travel = "round_trip")
       \/ plan.task[t] = "running_return"
    /\ \E data \in TaskData :
         plan' = [plan EXCEPT !.task[t] = "done", !.data[t] = data,
                              !.completed = Append(@, t)]
    /\ UNCHANGED others

\* the service constructed, stream_travel_plan called and not yet stepped
InitPlan ==
    /\ plan = NoPlan
    /\ estimate_args = NoArgs
    /\ budget_estimate = NoEstimate
    /\ response_text = NoResponse
    /\ parsed_info = NotParsed
    /\ connected = [r \in Runs |-> TRUE]
    /\ query = <<"g","o","a">>
    /\ api_key = TRUE
    /\ now = Today * TicksPerDay
    /\ stub = NoStub
    /\ pc = [r \in Runs |-> "absent"]
    /\ events = [r \in Runs |-> <<>>]
    /\ sse = [r \in Runs |-> <<>>]
    /\ intent_result = [r \in Runs |-> NoIntent]
    /\ parsed_travel = [r \in Runs |-> NoParse]
    /\ current_progress = [r \in Runs |-> Whole(0)]
    /\ progress_per_component = [r \in Runs |-> Whole(0)]
    /\ flight_results = [r \in Runs |-> NoFlights]
    /\ hotel_results = [r \in Runs |-> NoHotels]
    /\ budget = [r \in Runs |-> NoBudget]
    /\ calls = [r \in Runs |-> <<>>]
    /\ classified = NoIntent

NextPlan ==
    \/ PlanStart \/ PlanParse \/ PlanStatus20
    \/ PlanCreateFlightTask \/ PlanCreateHotelTask \/ PlanCreateAttractionsTask
    \/ PlanFlights \/ PlanHotels \/ PlanAttractions
    \/ PlanStatus75 \/ PlanItinerary \/ PlanStatus90 \/ PlanBudget
    \/ PlanTips \/ PlanComplete
    \/ \E t \in TaskNames : TaskStart(t) \/ TaskDone(t)
    \/ FlightTaskReturnLeg

SpecPlan == InitPlan /\ [][NextPlan]_vars

\* ================================================================ claims
IsTerminal(e) == e.type \in {"complete", "error"}
Terminals(s) == {i \in 1..Len(s) : IsTerminal(s[i])}
Occurrences(s, type) == {i \in 1..Len(s) : s[i].type = type}
HasProgress(e) == e.progress # NoProgress
Last(s) == s[Len(s)]

C2_ProgressNeverDecreases ==
    \A r \in Runs : \A i, j \in 1..Len(events[r]) :
        (i < j /\ HasProgress(events[r][i]) /\ HasProgress(events[r][j]))
            => FracLeq(events[r][i].progress, events[r][j].progress)

\* the result events of C3, in the order the claim lists them
ResultOrder == <<"summary", "flights", "hotels", "attractions", "itinerary",
                 "budget", "tips", "complete">>
Rank(type) == CHOOSE k \in 1..Len(ResultOrder) : ResultOrder[k] = type
IsResult(e) == \E k \in 1..Len(ResultOrder) : ResultOrder[k] = e.type

\* C3: in a run that passes parsing, the result events appear in the order
\* summary, flights, hotels, attractions, itinerary, budget, tips, complete,
\* whatever components were requested.
C3_FixedStageOrder ==
    \A r \in Runs : \A i, j \in 1..Len(events[r]) :
        (i < j /\ IsResult(events[r][i]) /\ IsResult(events[r][j]))
            => Rank(events[r][i].type) < Rank(events[r][j].type)

\* a complete run that emitted all eight result events
C3_Witness ==
    /\ pc[1] = "complete"
    /\ \A k \in 1..Len(ResultOrder) : Occurrences(events[1], ResultOrder[k]) # {}

Requested(r, stage) == intent_result[r].components[stage]
Invocations(r, stage) == {i \in 1..Len(calls[r]) : calls[r][i] = stage}
ReachedComplete(r) == Occurrences(events[r], "complete") # {}

\* C4 (as stated): for each stage, its searcher is invoked and its result
\* event is emitted if and only if its component flag is true.
C4_StageIffFlag ==
    \A r \in Runs : pc[r] = "closed" =>
        \A k \in 1..Len(Stages) :
            Requested(r, Stages[k])
                <=> (Invocations(r, Stages[k]) # {} /\ Occurrences(events[r], Stages[k]) # {})

\* C4 (amended): a stage whose flag is false causes no collaborator call and
\* no event; in a run that reaches `complete`, the searcher of every stage
\* whose flag is true is invoked exactly once and the stage emits exactly one
\* event: its result event, or, for flights, a `warning` event when formatting
\* the flight results raises.
C4_StageGatedByFlag ==
    \A r \in Runs : \A k \in 1..Len(Stages) :
        LET stage   == Stages[k]
            results == Cardinality(Occurrences(events[r], stage))
            warned  == IF stage = "flights"
                       THEN Cardinality(Occurrences(events[r], "warning")) ELSE 0
        IN  /\ ~Requested(r, stage) =>
                 Invocations(r, stage) = {} /\ results = 0 /\ warned = 0
            /\ (ReachedComplete(r) /\ Requested(r, stage)) =>
                 Cardinality(Invocations(r, stage)) = 1 /\ results + warned = 1

\* a complete run of an itinerary-only request: two stages ran, four did not
C4_Witness ==
    /\ pc[1] = "complete"
    /\ Requested(1, "itinerary") /\ Requested(1, "attractions")
    /\ ~Requested(1, "flights") /\ ~Requested(1, "budget")
    /\ calls[1] = <<"parse", "attractions", "itinerary">>

\* the origin tests of line 77, on the parsed request of run r
HasOrigin(r) ==
    /\ parsed_travel[r].kind = "json"
    /\ parsed_travel[r].origin \notin {Absent, "", "Not specified"}

\* C5: once the query is parsed and an origin found, no failure of the
\* collaborators behind the searchers aborts the run: every requested stage
\* is attempted and the run ends with `complete`, never with `error`.
C5_FailuresNeverAbort ==
    \A r \in Runs : HasOrigin(r) =>
        /\ Occurrences(events[r], "error") = {}
        /\ pc[r] = "closed" =>
              /\ Last(events[r]).type = "complete"
              /\ \A k \in 1..Len(Stages) :
                    Requested(r, Stages[k]) => Invocations(r, Stages[k]) # {}

\* a complete-trip run that closed although every collaborator failed
C5_Witness ==
    /\ pc[1] = "closed"
    /\ HasOrigin(1)
    /\ stub.flights = <<FlightRaise>>
    /\ stub.hotels = <<HotelRaise>>
    /\ stub.attractions = <<"raise">> /\ stub.itinerary = <<"raise">>
    /\ stub.tips = <<"raise">>
    /\ budget[1] # NoBudget

\* the events of a run that has not got past the parser
Preamble == <<Event("intent", Whole(5)), Event("status", Whole(10))>>
ParserFailed(r) ==
    /\ Invocations(r, "parse") # {}
    /\ stub.parse # <<>>
    /\ stub.parse[1].kind \in {"raise", "not_json"}

\* C6: when the parser fails, the run ends at once with exactly one `error`
\* event: no summary or stage event is emitted, no searcher is invoked.
C6_ParseFailureEndsRun ==
    \A r \in Runs : ParserFailed(r) =>
        /\ events[r] = Preamble \o <<Event("error", NoProgress)>>
        /\ calls[r] = <<"parse">>
        /\ pc[r] \in {"error", "closed"}

\* a run closed after the completion answered something that is no JSON
C6_Witness ==
    /\ pc[1] = "closed"
    /\ ParserFailed(1)
    /\ stub.parse[1].kind = "not_json"

OriginAbsent(r) ==
    /\ Invocations(r, "parse") # {}
    /\ parsed_travel[r].kind = "json"
    /\ parsed_travel[r].origin \in {Absent, "", "Not specified"}

\* C7: when the parsed request has no origin (absent, empty or the
\* placeholder), the run ends with a single `error` event that carries
\* needs_origin = true, and no searcher of any stage is executed.
C7_MissingOriginEndsRun ==
    \A r \in Runs : OriginAbsent(r) =>
        /\ events[r] = Preamble \o <<[Event("error", NoProgress) EXCEPT !.needs_origin = TRUE]>>
        /\ calls[r] = <<"parse">>
        /\ pc[r] \in {"error", "closed"}

\* a flights request closed because the origin was the placeholder
C7_Witness ==
    /\ pc[1] = "closed"
    /\ OriginAbsent(1)
    /\ parsed_travel[1].origin = "Not specified"
    /\ Requested(1, "flights")

\* C8: every run of stream_travel_plan that has started eventually emits a
\* terminal event, `error` or `complete`, as its last event.
C8_RunTerminates ==
    \A r \in Runs :
        (events[r] # <<>>) ~> (/\ pc[r] \in {"complete", "error", "closed"}
                               /\ events[r] # <<>>
                               /\ IsTerminal(Last(events[r])))

\* a run suspended at the status of its last stage, before any terminal event
C8_Witness ==
    /\ pc[1] = "tips_status"
    /\ Terminals(events[1]) = {}

Min(a, b) == IF a < b THEN a ELSE b
CommonPrefix(s, t) ==
    SubSeq(s, 1, Min(Len(s), Len(t))) = SubSeq(t, 1, Min(Len(s), Len(t)))

\* C9: two runs on the same query, date and collaborator answers emit the
\* same events with the same progress values, invoke (and skip) the same
\* stages and produce the same budget estimate.
C9_RunsAgree ==
    /\ CommonPrefix(events[1], events[2])
    /\ CommonPrefix(calls[1], calls[2])
    /\ (Invocations(1, "budget") # {} /\ Invocations(2, "budget") # {}) => budget[1] = budget[2]
    /\ (pc[1] = "closed" /\ pc[2] = "closed") =>
          events[1] = events[2] /\ sse[1] = sse[2] /\ calls[1] = calls[2]

\* both runs closed after a complete trip with a computed budget
C9_Witness ==
    /\ pc[1] = "closed" /\ pc[2] = "closed"
    /\ ReachedComplete(1) /\ ReachedComplete(2)
    /\ Occurrences(events[2], "budget") # {}
    /\ budget[1] \notin {NoBudget, FallbackBudget}

\* the totality keywords of C10
TotalityKeywords ==
    { <<"c","o","m","p","l","e","t","e">>,
      <<"e","n","t","i","r","e">>,
      <<"p","a","c","k","a","g","e">> }
HasTotalityKeyword(text) == \E kw \in TotalityKeywords : Contains(Lower(text), kw)

\* C10: for a query that contains "complete", "entire" or "package",
\* detect_intent sets all seven component flags and a confidence >= 0.95.
C10_TotalityGivesEverything ==
    (classified # NoIntent /\ HasTotalityKeyword(query)) =>
        /\ \A c \in ComponentNames : classified.components[c]
        /\ classified.confidence >= 95

\* "flights entire" classified: a totality keyword next to a flight keyword
C10_Witness ==
    /\ classified # NoIntent
    /\ query = <<"f","l","i","g","h","t","s"," ","e","n","t","i","r","e">>
    /\ classified.detected_keywords.flights > 0

\* the five category sets of the classifier
Categories == {"flights", "hotels", "attractions", "itinerary", "budget"}

\* the query was classified, its keyword hits fall in category c alone, and it
\* matches no multi-intent pattern and no complete-trip keyword
HitsOnly(c) ==
    /\ classified # NoIntent
    /\ classified.detected_keywords[c] > 0
    /\ \A o \in Categories \ {c} : classified.detected_keywords[o] = 0
    /\ classified.detected_keywords.complete = 0
    /\ ~is_multi_intent(Lower(query))

\* C11 (as stated): a query whose hits fall in exactly one category, with no
\* multi-intent pattern or complete-trip keyword, gets that category's flag
\* and no other flag but the summary, with confidence >= 0.85.
C11_SingleCategorySingleFlag ==
    \A c \in Categories : HitsOnly(c) =>
        /\ classified.components = [SummaryOnly EXCEPT ![c] = TRUE]
        /\ classified.confidence >= 85

\* C11 (amended): such a query gets its category's flag and confidence
\* >= 0.85; the other flags are false, except that two or more itinerary
\* hits also set the attractions flag; tips is never set.
C11_SingleCategoryFlags ==
    \A c \in Categories : HitsOnly(c) =>
        /\ classified.components =
              IF c = "itinerary" /\ classified.detected_keywords.itinerary > 1
              THEN [SummaryOnly EXCEPT !.itinerary = TRUE, !.attractions = TRUE]
              ELSE [SummaryOnly EXCEPT ![c] = TRUE]
        /\ classified.confidence >= 85

\* "itinerary goa" classified: one itinerary hit, nothing else
C11_Witness ==
    /\ HitsOnly("itinerary")
    /\ query = <<"i","t","i","n","e","r","a","r","y"," ","g","o","a">>
    /\ classified.detected_keywords.itinerary = 1
    /\ classified.intent = "itinerary_only"

\* the parser has returned a parsed request for run r
Parsed(r) == Invocations(r, "parse") # {} /\ parsed_travel[r].kind = "json"
\* the date fields of the completion answer
RawDeparture == stub.parse[1].departure_date
RawReturn == stub.parse[1].return_date
\* the current date at parse time
CurrentDay == strftime(now)
IsDay(d) == d # None /\ d # Malformed

\* C12: the departure_date of a parsed request is never earlier than the
\* current date at parse time; a missing, unparseable or past departure date
\* is replaced by the current date plus one day.
C12_DepartureNotInPast ==
    \A r \in Runs : Parsed(r) =>
        /\ IsDay(parsed_travel[r].departure_date)
        /\ parsed_travel[r].departure_date >= CurrentDay
        /\ (~IsDay(RawDeparture) \/ RawDeparture < CurrentDay)
              => parsed_travel[r].departure_date = CurrentDay + 1

\* a past departure date was repaired
C12_Witness ==
    /\ Parsed(1)
    /\ IsDay(RawDeparture) /\ RawDeparture < CurrentDay
    /\ parsed_travel[1].departure_date = CurrentDay + 1

\* C13: the return_date of a parsed request is strictly after its
\* departure_date, whatever the completion answered: a return date missing,
\* unparseable, not after the departure, or overtaken by a repaired departure.
C13_ReturnAfterDeparture ==
    \A r \in Runs : Parsed(r) =>
        /\ IsDay(parsed_travel[r].return_date)
        /\ parsed_travel[r].return_date > parsed_travel[r].departure_date

\* the answer's return date was after its departure date, but the departure
\* was in the past and its repair overtook the return date
C13_Witness ==
    /\ Parsed(1)
    /\ IsDay(RawDeparture) /\ IsDay(RawReturn)
    /\ RawDeparture < RawReturn
    /\ RawDeparture < CurrentDay
    /\ RawReturn <= parsed_travel[1].departure_date
    /\ parsed_travel[1].return_date = parsed_travel[1].departure_date + 3

\* the traveler count _calculate_budget_async uses (line 444)
Travelers(r) == IF parsed_travel[r].adults = None THEN 1 ELSE parsed_travel[r].adults

\* the flight search of run r failed in its collaborator and gave no options,
\* while the hotel search gave offers
FlightsFailedHotelsFound(r) ==
    /\ Invocations(r, "flights") # {} /\ Invocations(r, "hotels") # {}
    /\ stub.flights = <<FlightRaise>>
    /\ stub.hotels # <<>> /\ stub.hotels[1].kind = "df"
    /\ hotel_results[r].given /\ hotel_results[r].rows # <<>>

\* C14: when the flights stage fails in its collaborator while the hotels
\* stage succeeds, the run still reaches `complete`, and the `flights` amount
\* of its budget estimate is the fallback constant (30000) times the
\* traveler count, not zero.
C14_FailedFlightsUseFallback ==
    \A r \in Runs : (FlightsFailedHotelsFound(r) /\ pc[r] = "closed") =>
        /\ ReachedComplete(r)
        /\ Requested(r, "budget") =>
              /\ budget[r] # NoBudget
              /\ budget[r].flights = Whole(30000 * Travelers(r))
              /\ budget[r].flights # Whole(0)

\* the four percentages of a breakdown
PercentageNames == {"flights_percentage", "accommodation_percentage",
                    "activities_food_percentage", "transport_percentage"}

\* C15: every estimate _calculate_budget_estimate returns with total = 0
\* carries a breakdown whose four percentages are 0, the estimate returned
\* when the computation fails included.
C15_ZeroTotalZeroBreakdown ==
    (budget_estimate # NoEstimate /\ budget_estimate.total = Whole(0)) =>
        /\ "breakdown" \in DOMAIN budget_estimate
        /\ \A k \in PercentageNames : budget_estimate.breakdown[k] = Whole(0)

\* the categories of the query's keyword hits
HitCategories == {c \in Categories : classified.detected_keywords[c] > 0}
\* the three categories the single-intent tests of lines 111-121 look at
PrimaryCategories == {"flights", "hotels", "attractions"}
\* the classifier answered the complete trip with every flag set
IsCompleteTrip ==
    /\ classified.intent = "complete_trip"
    /\ classified.components = AllComponents
\* neither a multi-intent pattern nor a complete-trip keyword decided
NothingForcesComplete ==
    /\ classified.detected_keywords.complete = 0
    /\ ~is_multi_intent(Lower(query))

C17_NoHitsComplete ==
    (classified # NoIntent /\ HitCategories = {}) => IsCompleteTrip

\* "to goa" classified: no keyword of any set, no pattern
C17_Witness ==
    /\ classified # NoIntent
    /\ query = <<"t","o"," ","g","o","a">>
    /\ HitCategories = {}
    /\ NothingForcesComplete
    /\ IsCompleteTrip

\* the detect_intent call of line 58 has returned in run r
Classified(r) == intent_result[r] # NoIntent
\* the events that carry results derived from the parsed request
AfterParsing == {"summary", "flights", "warning", "hotels", "attractions",
                 "itinerary", "budget", "tips", "complete"}

ProgressStages(r) == {k \in 1..5 : Requested(r, Stages[k])}
LastOf(ks) == CHOOSE k \in ks : \A j \in ks : j <= k
\* the progress carried by the (single) event of a type in run r
ProgressOf(r, type) ==
    events[r][CHOOSE i \in Occurrences(events[r], type) : TRUE].progress

\* C19: after the summary at progress 20 each executed bracketed stage
\* advances progress by 70 divided by the number of bracketed stages
\* requested, so the event of the last requested bracketed stage carries
\* progress 90; a flights-only run moves from 20 to 90 in its flights stage.
C19_LastStageAtNinety ==
    \A r \in Runs : (ReachedComplete(r) /\ ProgressStages(r) # {}) =>
        LET last == Stages[LastOf(ProgressStages(r))] IN
        Occurrences(events[r], last) # {} => ProgressOf(r, last) = Whole(90)

\* a progress value that is a whole number (Frac writes every whole number n/1)
IsInteger(f) == f.d = 1

\* C20: every progress value emitted by stream_travel_plan is an integer
\* between 0 and 100, for every set of components detect_intent can request,
\* the itinerary-only set (three components counted) included.
C20_ProgressIsInteger ==
    \A r \in Runs : \A i \in 1..Len(events[r]) :
        HasProgress(events[r][i]) =>
            /\ IsInteger(events[r][i].progress)
            /\ FracLeq(Whole(0), events[r][i].progress)
            /\ FracLeq(events[r][i].progress, Whole(100))

\* the collaborator behind a stage's searcher failed in run r: it raised, or
\* its result was empty or malformed; the budget computation raised
SearcherFailed(r, stage) ==
    /\ Invocations(r, stage) # {}
    /\ CASE stage = "flights" ->
                \/ stub.flights[1].kind \in {"raise", "none"}
                \/ FlightFormattingRaises(flight_results[r])
         [] stage = "hotels" -> stub.hotels[1].kind \in {"raise", "none"}
         [] stage = "budget" -> budget[r] = FallbackBudget
         [] OTHER -> stub[stage] = <<"raise">>

\* C21: whenever the searcher of a requested stage (flights, hotels,
\* attractions, itinerary, budget or tips) fails, the run reports that stage
\* with a `warning` event instead of its result event, and goes on to the
\* next stage without an `error`.
C21_FailedStageWarns ==
    \A r \in Runs : \A k \in 1..Len(Stages) :
        SearcherFailed(r, Stages[k]) =>
            /\ Occurrences(events[r], "warning") # {}
            /\ Occurrences(events[r], Stages[k]) = {}
            /\ Occurrences(events[r], "error") = {}

\* parse_travel_query returned a request
ParsedInfo == parsed_info.kind = "json"
\* a date field that holds a calendar day
IsDate(d) == d >= 0
\* the return date the claim computes: departure_date + (duration_days - 1)
ReturnFromDuration == parsed_info.departure_date + (parsed_info.duration_days - 1)

\* C22: parse_travel_query normalizes the return date: absent with
\* duration_days > 1, it becomes departure_date + (duration_days - 1) days;
\* present but on or before departure_date, it is recomputed the same way, so
\* a returned request never has return_date <= departure_date.
C22_ReturnDateNormalized ==
    (ParsedInfo /\ IsDate(parsed_info.departure_date)) =>
        /\ (response_text.return_date \in {NoKey, None} /\ parsed_info.duration_days > 1)
              => parsed_info.return_date = ReturnFromDuration
        /\ (IsDate(response_text.return_date)
               /\ response_text.return_date <= parsed_info.departure_date)
              => parsed_info.return_date = ReturnFromDuration
        /\ IsDate(parsed_info.return_date)
              => parsed_info.return_date > parsed_info.departure_date

\* a price the budget computation of run r reads is one float() rejects
UnreadablePrice(r) ==
    \/ /\ Requested(r, "flights")
       /\ \/ (flight_results[r].outbound # <<>> /\ flight_results[r].outbound[1].price = Malformed)
          \/ (flight_results[r].return # <<>> /\ flight_results[r].return[1].price = Malformed)
    \/ /\ Requested(r, "hotels")
       /\ \E i \in 1..Len(Take(hotel_results[r].rows, 3)) : hotel_results[r].rows[i] = Malformed

\* C23: in every budget computation the traveler count is at least 1,
\* whatever the completion answered, so the per-traveler total is the total
\* divided by the traveler count, never the fallback of a division by zero
\* nor an error result.
C23_TravelersAtLeastOne ==
    /\ \A r \in Runs : Invocations(r, "budget") # {} =>
          /\ Travelers(r) >= 1
          /\ ~UnreadablePrice(r) =>
                /\ budget[r] # FallbackBudget
                /\ budget[r].per_person = FracDiv(budget[r].total, Travelers(r))
    /\ budget_estimate # NoEstimate =>
          /\ estimate_args.travelers >= 1
          /\ ~(\/ PriceRaises(estimate_args.outbound_flights)
               \/ PriceRaises(estimate_args.return_flights)
               \/ PriceRaises(estimate_args.hotels)) =>
                /\ budget_estimate # FailedEstimate
                /\ budget_estimate.per_person = Frac(budget_estimate.total.n, estimate_args.travelers)

\* the lowest 'Total Price' among flight options (15000 where a row has none)
MinPrice(rows) ==
    LET prices == {PriceOr(rows[i].price, 15000) : i \in 1..Len(rows)}
    IN  CHOOSE p \in prices : \A q \in prices : p <= q

\* run r computed a budget from the options its flight search returned
BudgetFromFlights(r) ==
    /\ Invocations(r, "budget") # {}
    /\ Requested(r, "flights")
    /\ flight_results[r].outbound # <<>>
    /\ ~FlightFormattingRaises(flight_results[r])
    /\ budget[r] # FallbackBudget

MinNightly(rows) ==
    LET prices == {PriceOr(rows[i], 3000) : i \in 1..Len(rows)}
    IN  CHOOSE p \in prices : \A q \in prices : p <= q

\* the days of the trip of run r
Days(r) == _calculate_days(parsed_travel[r].departure_date, parsed_travel[r].return_date)

\* the nightly default of the claim, as _calculate_budget_async has it
NightlyDefault == 3000

\* C25 for SmartStreamingService._calculate_budget_async: the accommodation
\* amount is the lowest nightly price among the returned hotel options times
\* (days - 1) nights, and the nightly default times the same nights when
\* there is no hotel data.
C25_StreamingAccommodation ==
    \A r \in Runs :
        (Invocations(r, "budget") # {} /\ budget[r] # FallbackBudget) =>
            budget[r].accommodation =
                IF Requested(r, "hotels") /\ hotel_results[r].rows # <<>>
                THEN Whole(MinNightly(hotel_results[r].rows) * (Days(r) - 1))
                ELSE Whole(NightlyDefault * (Days(r) - 1))

\* C25 for TravelItineraryService._calculate_budget_estimate: the same, with
\* duration_days for the days of the trip.
C25_ItineraryAccommodation ==
    (/\ budget_estimate # NoEstimate /\ budget_estimate # FailedEstimate
     /\ estimate_args.duration_days >= 1) =>
        budget_estimate.accommodation =
            IF Priced(estimate_args.hotels) # <<>>
            THEN Whole(Cheapest(estimate_args.hotels) * (estimate_args.duration_days - 1))
            ELSE Whole(NightlyDefault * (estimate_args.duration_days - 1))

\* C25: the accommodation amount of a budget estimate is the minimum nightly
\* price among the returned hotel options times (duration_days - 1) nights in
\* both budget estimators, and a fixed nightly default times the same number
\* of nights when no hotel data is available.
C25_AccommodationIsCheapestTimesNights ==
    C25_StreamingAccommodation /\ C25_ItineraryAccommodation

\* C26: once the caller of a run has disconnected while the run was
\* suspended at an event or in a searcher, the run issues no further
\* collaborator call and emits no further event: the step of the disconnect
\* and every later step leave its events, its delivered messages and its
\* calls as they were, so no `error` or `warning` is made of the disconnect.
C26_DisconnectStopsRun ==
    [][\A r \in Runs : ~connected'[r] =>
            /\ events'[r] = events[r]
            /\ sse'[r] = sse[r]
            /\ calls'[r] = calls[r]
            /\ pc'[r] = "cancelled"]_vars

\* a complete-trip run whose caller went away while the hotels stage was
\* starting: the flights were searched, the hotels never
C26_Witness ==
    /\ ~connected[1]
    /\ pc[1] = "cancelled"
    /\ Requested(1, "hotels") /\ Requested(1, "tips")
    /\ calls[1] = <<"parse", "flights">>
    /\ Last(events[1]).type = "status"
    /\ Terminals(sse[1]) = {}

\* the per-request state of run r: the locals of its generator, its events
OwnState(r) ==
    <<events[r], sse[r], calls[r], intent_result[r], parsed_travel[r],
      current_progress[r], progress_per_component[r], flight_results[r],
      hotel_results[r], budget[r]>>

\* the events that end a bracketed stage (lines 129 and 149 add the step)
EndsStage(e) == e.type \in {"flights", "warning", "hotels", "attractions", "itinerary", "budget"}

\* the cumulative progress a run alone has after its first i events: 20 plus
\* its own step for each bracketed stage it has ended
AloneProgress(r, i) ==
    FracAdd(Whole(20),
            FracMul(ProgressPerComponent(intent_result[r].components),
                    Whole(Cardinality({j \in 1..i : EndsStage(events[r][j])}))))

\* two fractions of the same value
SameValue(a, b) == a.n * b.d = b.n * a.d

\* the progress of every stage event of run r is the one it has when alone
ProgressAsAlone(r) ==
    \A i \in 1..Len(events[r]) :
        LET e == events[r][i] IN
        /\ (EndsStage(e) /\ e.type # "warning") => SameValue(e.progress, AloneProgress(r, i))
        /\ e.type = "warning" => SameValue(e.progress, AloneProgress(r, i - 1))
        /\ (e.type = "status" /\ i > 4 /\ e.progress # Whole(90))
              => SameValue(e.progress, FracAdd(AloneProgress(r, i), Whole(5)))

\* C27: two interleaved runs on the singleton service share no mutable
\* per-request state: a step of one run leaves the parsed request, intent
\* result, stage results, progress and events of the other as they were, and
\* the progress each run reports is the one it computes from its own
\* components and events, as when it runs alone.
C27_RunsShareNoState ==
    /\ [][\A r \in Runs : pc'[r] = pc[r] => OwnState(r)' = OwnState(r)]_vars
    /\ [](\A r \in Runs : ProgressAsAlone(r))

\* run 1 has emitted its budget while run 2 is still searching flights
C27_Witness ==
    /\ pc[1] = "budget"
    /\ pc[2] = "flights_status"
    /\ Len(events[1]) > Len(events[2]) + 4
    /\ current_progress[1] # current_progress[2]
    /\ budget[1] # NoBudget /\ budget[2] = NoBudget

\* C28: every result of detect_intent has the summary flag set; its tips flag
\* is set if and only if its intent label is complete_trip, if and only if
\* all seven component flags are set: no single-intent result requests tips.
C28_TipsOnlyWithCompleteTrip ==
    classified # NoIntent =>
        /\ classified.components.summary
        /\ classified.components.tips <=> classified.intent = "complete_trip"
        /\ classified.intent = "complete_trip" <=> classified.components = AllComponents

\* "schedule plan" classified: an itinerary-only result with two stage flags
\* and no tips
C28_Witness ==
    /\ classified # NoIntent
    /\ query = <<"s","c","h","e","d","u","l","e"," ","p","l","a","n">>
    /\ classified.intent = "itinerary_only"
    /\ classified.components.itinerary /\ classified.components.attractions
    /\ ~classified.components.tips

\* the stages that need no origin: all but the flight search
OriginFreeStages == {"hotels", "attractions", "itinerary", "budget", "tips"}

\* C29: the missing-origin abort does not depend on the requested
\* components: a run whose parsed request has no origin ends with the
\* needs_origin error also when flights were not requested, so no hotels,
\* attractions, itinerary or budget stage ever runs without an origin.
C29_OriginRequiredForEveryIntent ==
    \A r \in Runs :
        /\ (OriginAbsent(r) /\ ~Requested(r, "flights")) =>
              /\ pc[r] \in {"error", "closed"}
              /\ Last(events[r]).type = "error" /\ Last(events[r]).needs_origin
              /\ Occurrences(events[r], "summary") = {}
        /\ \A stage \in OriginFreeStages :
              (Invocations(r, stage) # {} \/ Occurrences(events[r], stage) # {})
                  => HasOrigin(r)

\* a hotel-only request closed because the origin was empty
C29_Witness ==
    /\ pc[1] = "closed"
    /\ intent_result[1].intent = "hotel_only"
    /\ ~Requested(1, "flights") /\ Requested(1, "hotels")
    /\ OriginAbsent(1) /\ parsed_travel[1].origin = ""
    /\ Last(events[1]).needs_origin

\* ---------------------------------------------------------------------
\* C30: in StreamingTravelService.stream_travel_plan the three lookups are
\* tasks that are all created before the first of them is awaited and that
\* complete in any order; the result events come out in the order flights,
\* hotels, attractions, each at most once and each carrying what its own
\* task returned, and once the itinerary stage has started (status 75) all
\* three tasks have completed and each result event was emitted exactly once.
ResultTypes == <<"flights", "hotels", "attractions">>
TaskOf(type) ==
    CASE type = "flights" -> "flight_task"
      [] type = "hotels" -> "hotel_task"
      [] type = "attractions" -> "attractions_task"
IsPlanResult(e) == e.type \in {"flights", "hotels", "attractions"}
PlanResults == SelectSeq(plan.events, IsPlanResult)
ItineraryStageStarted ==
    \E i \in 1..Len(plan.events) :
        plan.events[i].type = "itinerary" \/ plan.events[i].progress = 75
C30_ResultsInOrderAfterAllTasks ==
    /\ Len(PlanResults) <= 3
    /\ \A i \in 1..Len(PlanResults) :
          /\ PlanResults[i].type = ResultTypes[i]
          /\ plan.task[TaskOf(ResultTypes[i])] = "done"
          /\ PlanResults[i].data = plan.data[TaskOf(ResultTypes[i])]
    /\ Len(PlanResults) >= 1 => \A t \in TaskNames : plan.task[t] # "absent"
    /\ ItineraryStageStarted =>
          /\ \A t \in TaskNames : plan.task[t] = "done"
          /\ Len(PlanResults) = 3

\* the tasks completed in the reverse of the order they were created in, and
\* the finished run still carries flights, hotels, attractions in that order
C30_Witness ==
    /\ plan.completed = <<"attractions_task", "hotel_task", "flight_task">>
    /\ plan.pc = "complete"
    /\ [i \in 1..3 |-> PlanResults[i].type] = ResultTypes
    /\ plan.data["flight_task"] = "found"
    /\ plan.data["hotel_task"] = "empty"

====
